---------------------------- MODULE Spec2Model ----------------------------
(***************************************************************************)
(* A model of the geometry kernel of tiny-skia: the affine Transform       *)
(* (path/src/transform.rs), the BlendMode tables (src/blend_mode.rs), the  *)
(* root finders, the Bezier evaluation and chopping, the conic             *)
(* subdivision and the curvature analysis of path/src/path_geometry.rs     *)
(* (with the lanes of path/src/f32x2_t.rs), and fill_rect                  *)
(* (src/scan/mod.rs).                                                      *)
(*                                                                         *)
(* The library holds no state of its own: every function is a pure         *)
(* function of its arguments.  The state of the model is therefore the     *)
(* call in progress: which function was called (call), with which          *)
(* arguments (input), and what it returned or left in the caller's buffer  *)
(* (output).                                                               *)
(*                                                                         *)
(* Numbers.  An f32/f64 value is modelled as an exact rational <<n, d>>    *)
(* in lowest terms with d > 0, extended with the three non-finite values   *)
(* of IEEE-754: <<1, 0>> is +Inf, <<-1, 0>> is -Inf and <<0, 0>> is NaN.   *)
(* Rounding of finite results is not modelled (the arithmetic is the exact *)
(* arithmetic the floats approximate) except in Sqrt, whose result is      *)
(* irrational in general and is rounded to a grid, in Conic::chop, where   *)
(* every result is rounded to a grid, and in solve_cubic_poly, whose roots *)
(* are held on a grid.  Zero is unsigned.                                  *)
(***************************************************************************)
EXTENDS Integers, Sequences, FiniteSets, TLC

VARIABLES call, input, output

vars == <<call, input, output>>

-----------------------------------------------------------------------------
(* Bounds of the model.                                                    *)

\* Coefficients of the transforms given to the one-transform operations
\* range over -1 .. MaxCoef.
MaxCoef == 1

\* Arguments of the constructors (from_translate, from_scale, from_skew,
\* from_sin_cos) that build the operands of the compositions, and the
\* coordinates of the points that are mapped, range over -1 .. MaxArg.
MaxArg == 1

\* Sqrt rounds an irrational root down to a multiple of 1/(d * SqrtGrid).
SqrtGrid == 256

\* The slices given to map_points hold 0 .. MaxLen points.
MaxLen == 3

\* The coefficients given to find_unit_quad_roots range over
\* -MaxRootCoef .. MaxRootCoef.
MaxRootCoef == 6

\* The control points of curves have coordinates up to MaxCurve.
MaxCurve == 1

\* Curves are chopped at the MaxChop parameters i / (MaxChop + 1).
MaxChop == 3

\* The edges of the rectangles given to fill_rect reach up to MaxRect.
MaxRect == 2

\* The roots of solve_cubic_poly are held to multiples of 1 / RootGrid.
RootGrid == 16

-----------------------------------------------------------------------------
(* Option<T>                                                               *)

None == [some |-> FALSE]

Some(v) == [some |-> TRUE, val |-> v]

-----------------------------------------------------------------------------
(* f32 / f64 arithmetic                                                    *)

NaN == <<0, 0>>

PosInf == <<1, 0>>

NegInf == <<-1, 0>>

Abs(i) == IF i < 0 THEN -i ELSE i

Sgn(i) == IF i < 0 THEN -1 ELSE IF i > 0 THEN 1 ELSE 0

RECURSIVE GCD(_, _)
GCD(a, b) == IF b = 0 THEN a ELSE GCD(b, a % b)

\* The rational n/d (d # 0) in lowest terms with a positive denominator.
Rat(n, d) ==
    LET g == GCD(Abs(n), Abs(d))
        s == Sgn(d)
    IN  <<(s * n) \div g, (s * d) \div g>>

F(i) == <<i, 1>>

Zero == F(0)

One == F(1)

IsNaN(x) == x = NaN

is_finite(x) == x[2] # 0

\* The sign of a value that is not NaN.
Sign(x) == Sgn(x[1])

Neg(x) == <<-x[1], x[2]>>

FAbs(x) == <<Abs(x[1]), x[2]>>

Add(x, y) ==
    IF IsNaN(x) \/ IsNaN(y) THEN NaN
    ELSE IF ~is_finite(x) THEN (IF ~is_finite(y) /\ y # x THEN NaN ELSE x)
    ELSE IF ~is_finite(y) THEN y
    ELSE Rat(x[1] * y[2] + y[1] * x[2], x[2] * y[2])

Sub(x, y) == Add(x, Neg(y))

Mul(x, y) ==
    IF IsNaN(x) \/ IsNaN(y) THEN NaN
    ELSE IF ~is_finite(x) \/ ~is_finite(y)
         THEN (IF Sign(x) * Sign(y) = 0 THEN NaN ELSE <<Sign(x) * Sign(y), 0>>)
    ELSE Rat(x[1] * y[1], x[2] * y[2])

Div(x, y) ==
    IF IsNaN(x) \/ IsNaN(y) THEN NaN
    ELSE IF ~is_finite(x)
         THEN (IF ~is_finite(y) THEN NaN
               ELSE <<Sign(x) * (IF Sign(y) < 0 THEN -1 ELSE 1), 0>>)
    ELSE IF ~is_finite(y) THEN Zero
    ELSE IF y[1] = 0 THEN (IF x[1] = 0 THEN NaN ELSE <<Sign(x), 0>>)
    ELSE Rat(x[1] * y[2], x[2] * y[1])

\* a/b < c/d for naturals a, c and positive b, d, by the continued-fraction
\* expansion of both sides (no product is formed).
RECURSIVE NatLess(_, _, _, _)
NatLess(a, b, c, d) ==
    IF a \div b # c \div d THEN a \div b < c \div d
    ELSE IF c % d = 0 THEN FALSE
    ELSE IF a % b = 0 THEN TRUE
    ELSE NatLess(d, c % d, b, a % b)

\* x < y; false when either is NaN.
Lt(x, y) ==
    IF IsNaN(x) \/ IsNaN(y) THEN FALSE
    ELSE IF ~is_finite(x) \/ ~is_finite(y)
         THEN (IF x = y THEN FALSE ELSE x = NegInf \/ y = PosInf)
    ELSE IF Sign(x) # Sign(y) THEN Sign(x) < Sign(y)
    ELSE IF Sign(x) >= 0 THEN NatLess(x[1], x[2], y[1], y[2])
    ELSE NatLess(-y[1], y[2], -x[1], x[2])

\* x == y; false when either is NaN.
Eq(x, y) == ~IsNaN(x) /\ ~IsNaN(y) /\ x = y

Ne(x, y) == ~Eq(x, y)

Le(x, y) == Lt(x, y) \/ Eq(x, y)

Gt(x, y) == Lt(y, x)

Ge(x, y) == Le(y, x)

\* The integer square root of a natural.
RECURSIVE ISqrt(_)
ISqrt(n) ==
    IF n < 2 THEN n
    ELSE LET s == 2 * ISqrt(n \div 4)
         IN  IF (s + 1) * (s + 1) <= n THEN s + 1 ELSE s

\* sqrt: exact when the root is rational, otherwise rounded down to the grid.
Sqrt(x) ==
    IF IsNaN(x) \/ x = NegInf THEN NaN
    ELSE IF x = PosInf THEN PosInf
    ELSE IF x[1] < 0 THEN NaN
    ELSE LET rn == ISqrt(x[1])
             rd == ISqrt(x[2])
         IN  IF rn * rn = x[1] /\ rd * rd = x[2] THEN Rat(rn, rd)
             ELSE Rat(ISqrt(x[1] * x[2] * SqrtGrid * SqrtGrid), x[2] * SqrtGrid)

\* 1 << pow2
RECURSIVE Shl1(_)
Shl1(pow2) == IF pow2 = 0 THEN 1 ELSE 2 * Shl1(pow2 - 1)

\* f32::MAX_EXP: every f32 is less than 2^128 in magnitude.
F32_MAX_EXP == 128

\* x as an f32, for x in units in which the f32 range ends at 2^bits: a
\* finite x of that magnitude or more is beyond the range and becomes an
\* infinity.  Every finite value of the model is below 2^31 in its units.
f32_in_range(x, bits) ==
    IF is_finite(x) /\ bits < 31 /\ Ge(FAbs(x), F(Shl1(bits)))
    THEN IF Sign(x) > 0 THEN PosInf ELSE NegInf
    ELSE x

\* f32::MANTISSA_DIGITS: the significand of an f32 holds 24 bits.
F32_MANTISSA_DIGITS == 24

\* The least magnitude at which an integer may need more than 24 bits.
F32_EXACT_INTEGERS == Shl1(F32_MANTISSA_DIGITS)

\* The unit in the last place of the f32 nearest to the integer n >= 0: the
\* least power of two that leaves n no more than 24 bits.
RECURSIVE ulp_of(_, _)
ulp_of(n, unit) ==
    IF n \div unit < F32_EXACT_INTEGERS THEN unit ELSE ulp_of(n, 2 * unit)

\* n >= 0 rounded to the nearest multiple of unit, a tie to the even one.
round_ties_even(n, unit) ==
    LET q == n \div unit
        rest == n % unit
    IN  IF 2 * rest < unit \/ (2 * rest = unit /\ q % 2 = 0)
        THEN q * unit
        ELSE (q + 1) * unit

\* The f32 nearest to x, the result of an f32 operation whose exact result
\* is x.  An integer of 2^24 or more is rounded to 24 bits; the other values
\* it is applied to (small integers and their halves and quarters) are f32
\* values as they are.  It is applied to the results of the tangent
\* functions, whose control points may be that large.
f32_nearest(x) ==
    IF is_finite(x) /\ x[2] = 1 /\ Abs(x[1]) >= F32_EXACT_INTEGERS
    THEN F(Sgn(x[1]) * round_ties_even(Abs(x[1]), ulp_of(Abs(x[1]), 1)))
    ELSE x

-----------------------------------------------------------------------------
(* crate::scalar (Scalar trait and constants)                              *)

\* f32::EPSILON, 2^-23.
EPSILON == <<1, 8388608>>

\* SCALAR_NEARLY_ZERO, 1 / (1 << 12).
SCALAR_NEARLY_ZERO == <<1, 4096>>

\* Scalar::is_nearly_zero_within_tolerance: self.abs() <= tolerance.
is_nearly_zero_within_tolerance(x, tolerance) == Le(FAbs(x), tolerance)

\* Scalar::invert: 1.0 / self.
scalar_invert(x) == Div(One, x)

-----------------------------------------------------------------------------
(* Point                                                                   *)

Point(x, y) == [x |-> x, y |-> y]

\* The derived PartialEq of Point.
PointEq(p, q) == Eq(p.x, q.x) /\ Eq(p.y, q.y)

-----------------------------------------------------------------------------
(* Transform (path/src/transform.rs)                                       *)

\* We are using column-major-column-vector notation: it is ky-kx, not kx-ky.
from_row(sx, ky, kx, sy, tx, ty) ==
    [sx |-> sx, kx |-> kx, ky |-> ky, sy |-> sy, tx |-> tx, ty |-> ty]

identity == from_row(One, Zero, Zero, One, Zero, Zero)

from_translate(tx, ty) == from_row(One, Zero, Zero, One, tx, ty)

from_scale(sx, sy) == from_row(sx, Zero, Zero, sy, Zero, Zero)

from_skew(kx, ky) == from_row(One, ky, kx, One, Zero, Zero)

from_sin_cos(sin, cos) == from_row(cos, sin, Neg(sin), cos, Zero, Zero)

\* The derived PartialEq of Transform: every field compares equal.
TransformEq(a, b) ==
    /\ Eq(a.sx, b.sx) /\ Eq(a.kx, b.kx) /\ Eq(a.ky, b.ky)
    /\ Eq(a.sy, b.sy) /\ Eq(a.tx, b.tx) /\ Eq(a.ty, b.ty)

Transform_is_finite(ts) ==
    /\ is_finite(ts.sx) /\ is_finite(ts.ky) /\ is_finite(ts.kx)
    /\ is_finite(ts.sy) /\ is_finite(ts.tx) /\ is_finite(ts.ty)

get_scale(ts) ==
    <<Sqrt(Add(Mul(ts.sx, ts.sx), Mul(ts.kx, ts.kx))),
      Sqrt(Add(Mul(ts.ky, ts.ky), Mul(ts.sy, ts.sy)))>>

is_valid(ts) ==
    IF Transform_is_finite(ts)
    THEN ~(\/ is_nearly_zero_within_tolerance(get_scale(ts)[1], EPSILON)
           \/ is_nearly_zero_within_tolerance(get_scale(ts)[2], EPSILON))
    ELSE FALSE

\* has_scale with "and" for "or".
has_scale_both(ts) == Ne(ts.sx, One) /\ Ne(ts.sy, One)

has_scale(ts) == Ne(ts.sx, One) \/ Ne(ts.sy, One)

has_skew(ts) == Ne(ts.kx, Zero) \/ Ne(ts.ky, Zero)

has_translate(ts) == Ne(ts.tx, Zero) \/ Ne(ts.ty, Zero)

is_identity(ts) == TransformEq(ts, identity)

is_scale(ts) == has_scale(ts) /\ ~has_skew(ts) /\ ~has_translate(ts)

is_skew(ts) == ~has_scale(ts) /\ has_skew(ts) /\ ~has_translate(ts)

is_translate(ts) == ~has_scale(ts) /\ ~has_skew(ts) /\ has_translate(ts)

is_scale_translate(ts) == (has_scale(ts) \/ has_translate(ts)) /\ ~has_skew(ts)

\* (a * b + c * d) in f64.
mul_add_mul(a, b, c, d) == Add(Mul(a, b), Mul(c, d))

\* concat taking the scale-and-translate branch whenever a has no skew,
\* whatever b is.
concat_ignoring_skew_of_b(a, b) ==
    IF is_identity(a) THEN b
    ELSE IF is_identity(b) THEN a
    ELSE IF ~has_skew(a)
         THEN from_row(Mul(a.sx, b.sx),
                       Zero,
                       Zero,
                       Mul(a.sy, b.sy),
                       Add(Mul(a.sx, b.tx), a.tx),
                       Add(Mul(a.sy, b.ty), a.ty))
    ELSE from_row(mul_add_mul(a.sx, b.sx, a.kx, b.ky),
                  mul_add_mul(a.ky, b.sx, a.sy, b.ky),
                  mul_add_mul(a.sx, b.kx, a.kx, b.sy),
                  mul_add_mul(a.ky, b.kx, a.sy, b.sy),
                  Add(mul_add_mul(a.sx, b.tx, a.kx, b.ty), a.tx),
                  Add(mul_add_mul(a.ky, b.tx, a.sy, b.ty), a.ty))

concat(a, b) ==
    IF is_identity(a) THEN b
    ELSE IF is_identity(b) THEN a
    ELSE IF ~has_skew(a) /\ ~has_skew(b)
         THEN \* just scale and translate
              from_row(Mul(a.sx, b.sx),
                       Zero,
                       Zero,
                       Mul(a.sy, b.sy),
                       Add(Mul(a.sx, b.tx), a.tx),
                       Add(Mul(a.sy, b.ty), a.ty))
    ELSE from_row(mul_add_mul(a.sx, b.sx, a.kx, b.ky),
                  mul_add_mul(a.ky, b.sx, a.sy, b.ky),
                  mul_add_mul(a.sx, b.kx, a.kx, b.sy),
                  mul_add_mul(a.ky, b.kx, a.sy, b.sy),
                  Add(mul_add_mul(a.sx, b.tx, a.kx, b.ty), a.tx),
                  Add(mul_add_mul(a.ky, b.tx, a.sy, b.ty), a.ty))

pre_concat(self, other) == concat(self, other)

\* post_concat with the operands in the order of pre_concat.
post_concat_as_pre(self, other) == concat(self, other)

post_concat(self, other) == concat(other, self)

\* pre_scale with the two factors exchanged.
pre_scale_exchanged(self, sx, sy) == pre_concat(self, from_scale(sy, sx))

pre_scale(self, sx, sy) == pre_concat(self, from_scale(sx, sy))

post_scale(self, sx, sy) == post_concat(self, from_scale(sx, sy))

\* map_point whose scale-and-translate branch forgets the translation.
map_point_without_translate(ts, point) ==
    IF is_identity(ts) THEN point
    ELSE IF is_translate(ts)
         THEN Point(Add(point.x, ts.tx), Add(point.y, ts.ty))
    ELSE IF is_scale_translate(ts)
         THEN Point(Mul(point.x, ts.sx), Mul(point.y, ts.sy))
    ELSE Point(Add(Add(Mul(point.x, ts.sx), Mul(point.y, ts.kx)), ts.tx),
               Add(Add(Mul(point.x, ts.ky), Mul(point.y, ts.sy)), ts.ty))

map_point(ts, point) ==
    IF is_identity(ts) THEN point
    ELSE IF is_translate(ts)
         THEN Point(Add(point.x, ts.tx), Add(point.y, ts.ty))
    ELSE IF is_scale_translate(ts)
         THEN Point(Add(Mul(point.x, ts.sx), ts.tx),
                    Add(Mul(point.y, ts.sy), ts.ty))
    ELSE Point(Add(Add(Mul(point.x, ts.sx), Mul(point.y, ts.kx)), ts.tx),
               Add(Add(Mul(point.x, ts.ky), Mul(point.y, ts.sy)), ts.ty))

map_points(ts, points) ==
    IF points = <<>> THEN points
    ELSE IF is_identity(ts) THEN points
    ELSE IF is_translate(ts)
         THEN [i \in DOMAIN points |->
                  Point(Add(points[i].x, ts.tx), Add(points[i].y, ts.ty))]
    ELSE IF is_scale_translate(ts)
         THEN [i \in DOMAIN points |->
                  Point(Add(Mul(points[i].x, ts.sx), ts.tx),
                        Add(Mul(points[i].y, ts.sy), ts.ty))]
    ELSE [i \in DOMAIN points |->
             Point(Add(Add(Mul(points[i].x, ts.sx), Mul(points[i].y, ts.kx)), ts.tx),
                   Add(Add(Mul(points[i].x, ts.ky), Mul(points[i].y, ts.sy)), ts.ty))]

dcross(a, b, c, d) == Sub(Mul(a, b), Mul(c, d))

dcross_dscale(a, b, c, d, scale) == Mul(dcross(a, b, c, d), scale)

\* |det| <= tolerance with tolerance the cube of SCALAR_NEARLY_ZERO.  The cube
\* (2^-36) is compared as |det| / t / t <= t, which keeps the integers of the
\* model small.
inv_determinant(ts) ==
    LET det == dcross(ts.sx, ts.sy, ts.kx, ts.ky)
    IN  IF is_nearly_zero_within_tolerance(
               Div(Div(det, SCALAR_NEARLY_ZERO), SCALAR_NEARLY_ZERO),
               SCALAR_NEARLY_ZERO)
        THEN None
        ELSE Some(Div(One, det))

\* compute_inv with the sign of the ky entry lost.
compute_inv_unsigned_ky(ts, inv_det) ==
    from_row(Mul(ts.sy, inv_det),
             Mul(ts.ky, inv_det),
             Mul(Neg(ts.kx), inv_det),
             Mul(ts.sx, inv_det),
             dcross_dscale(ts.kx, ts.ty, ts.sy, ts.tx, inv_det),
             dcross_dscale(ts.ky, ts.tx, ts.sx, ts.ty, inv_det))

compute_inv(ts, inv_det) ==
    from_row(Mul(ts.sy, inv_det),
             Mul(Neg(ts.ky), inv_det),
             Mul(Neg(ts.kx), inv_det),
             Mul(ts.sx, inv_det),
             dcross_dscale(ts.kx, ts.ty, ts.sy, ts.tx, inv_det),
             dcross_dscale(ts.ky, ts.tx, ts.sx, ts.ty, inv_det))

\* fn invert(ts: &Transform), called for a transform that is not the identity.
invert(ts) ==
    IF is_scale_translate(ts)
    THEN IF has_scale(ts)
         THEN LET inv_x == scalar_invert(ts.sx)
                  inv_y == scalar_invert(ts.sy)
              IN  Some(from_row(inv_x, Zero, Zero, inv_y,
                                Mul(Neg(ts.tx), inv_x),
                                Mul(Neg(ts.ty), inv_y)))
         ELSE \* translate only
              Some(from_translate(Neg(ts.tx), Neg(ts.ty)))
    ELSE LET inv_det == inv_determinant(ts)
         IN  IF ~inv_det.some THEN None
             ELSE IF Transform_is_finite(compute_inv(ts, inv_det.val))
                  THEN Some(compute_inv(ts, inv_det.val))
                  ELSE None

\* Transform::invert
Transform_invert(self) ==
    IF is_identity(self) THEN Some(self) ELSE invert(self)

-----------------------------------------------------------------------------
(* BlendMode (src/blend_mode.rs)                                           *)

BlendMode ==
    {"Clear", "Source", "Destination", "SourceOver", "DestinationOver",
     "SourceIn", "DestinationIn", "SourceOut", "DestinationOut", "SourceAtop",
     "DestinationAtop", "Xor", "Plus", "Modulate", "Screen", "Overlay",
     "Darken", "Lighten", "ColorDodge", "ColorBurn", "HardLight", "SoftLight",
     "Difference", "Exclusion", "Multiply", "Hue", "Saturation", "Color",
     "Luminosity"}

\* should_pre_scale_coverage that forgets Xor.
should_pre_scale_coverage_without_xor(self) ==
    self \in {"Destination", "DestinationOver", "Plus", "DestinationOut",
              "SourceAtop", "SourceOver"}

should_pre_scale_coverage(self) ==
    self \in {"Destination",        \* d              --> no sa term, ok!
              "DestinationOver",    \* d + s*inv(da)  --> no sa term, ok!
              "Plus",               \* clamp(s+d)     --> no sa term, ok!
              "DestinationOut",     \* d * inv(sa)
              "SourceAtop",         \* s*da + d*inv(sa)
              "SourceOver",         \* s + d*inv(sa)
              "Xor"}                \* s*inv(da) + d*inv(sa)

\* to_stage that maps Source to a stage of its own, like every other mode.
to_stage_never_none(self) ==
    IF self = "Destination" THEN Some("MoveDestinationToSource") ELSE Some(self)

\* The stages (pipeline::Stage) are named by strings.
to_stage(self) ==
    CASE self = "Clear" -> Some("Clear")
      [] self = "Source" -> None \* This stage is a no-op.
      [] self = "Destination" -> Some("MoveDestinationToSource")
      [] self = "SourceOver" -> Some("SourceOver")
      [] self = "DestinationOver" -> Some("DestinationOver")
      [] self = "SourceIn" -> Some("SourceIn")
      [] self = "DestinationIn" -> Some("DestinationIn")
      [] self = "SourceOut" -> Some("SourceOut")
      [] self = "DestinationOut" -> Some("DestinationOut")
      [] self = "SourceAtop" -> Some("SourceAtop")
      [] self = "DestinationAtop" -> Some("DestinationAtop")
      [] self = "Xor" -> Some("Xor")
      [] self = "Plus" -> Some("Plus")
      [] self = "Modulate" -> Some("Modulate")
      [] self = "Screen" -> Some("Screen")
      [] self = "Overlay" -> Some("Overlay")
      [] self = "Darken" -> Some("Darken")
      [] self = "Lighten" -> Some("Lighten")
      [] self = "ColorDodge" -> Some("ColorDodge")
      [] self = "ColorBurn" -> Some("ColorBurn")
      [] self = "HardLight" -> Some("HardLight")
      [] self = "SoftLight" -> Some("SoftLight")
      [] self = "Difference" -> Some("Difference")
      [] self = "Exclusion" -> Some("Exclusion")
      [] self = "Multiply" -> Some("Multiply")
      [] self = "Hue" -> Some("Hue")
      [] self = "Saturation" -> Some("Saturation")
      [] self = "Color" -> Some("Color")
      [] self = "Luminosity" -> Some("Luminosity")

-----------------------------------------------------------------------------
(* Roots of quadratics (path/src/path_geometry.rs)                         *)

\* NormalizedF32Exclusive::new: the value, when it lies strictly inside (0, 1).
NormalizedF32Exclusive_new(v) ==
    IF Gt(v, Zero) /\ Lt(v, One) THEN Some(v) ELSE None

\* NormalizedF32Exclusive::ANY
ANY == <<1, 2>>

new_t_values == <<ANY, ANY, ANY>>

\* The same without the sign normalisation of the first three lines.
valid_unit_divide_unnormalized(numer, denom) ==
    IF Eq(denom, Zero) \/ Eq(numer, Zero) \/ Ge(numer, denom) THEN None
    ELSE NormalizedF32Exclusive_new(Div(numer, denom))

valid_unit_divide(numer, denom) ==
    LET n == IF Lt(numer, Zero) THEN Neg(numer) ELSE numer
        d == IF Lt(numer, Zero) THEN Neg(denom) ELSE denom
    IN  IF Eq(d, Zero) \/ Eq(n, Zero) \/ Ge(n, d) THEN None
        ELSE NormalizedF32Exclusive_new(Div(n, d))

\* find_quad_extrema with the middle value subtracted once.
find_quad_extrema_of_one_b(a, b, c) ==
    valid_unit_divide(Sub(a, b), Add(Sub(a, b), c))

\* Quad'(t) = At + B, where A = 2(a - 2b + c) and B = 2(b - a): solve for
\* t, only if it fits between 0 < t < 1
find_quad_extrema(a, b, c) ==
    valid_unit_divide(Sub(a, b), Add(Sub(Sub(a, b), b), c))


\* roots.swap(0, 1)
swap01(roots) == <<roots[2], roots[1], roots[3]>>

\* The same part without the exchange of two roots found in descending order.
unit_quad_roots_unsorted(a, c, q, roots) ==
    LET r1 == valid_unit_divide(q, a)
        roots1 == IF r1.some THEN [roots EXCEPT ![1] = r1.val] ELSE roots
        offset1 == IF r1.some THEN 1 ELSE 0
        r2 == valid_unit_divide(c, q)
        roots2 == IF r2.some THEN [roots1 EXCEPT ![offset1 + 1] = r2.val]
                  ELSE roots1
        offset2 == IF r2.some THEN offset1 + 1 ELSE offset1
    IN  IF offset2 = 2 /\ Eq(roots2[1], roots2[2])
        THEN [count |-> 1, roots |-> roots2]
        ELSE [count |-> offset2, roots |-> roots2]

\* The part of find_unit_quad_roots after q is known: the two candidates are
\* stored, then put in order or collapsed.
unit_quad_roots_of(a, c, q, roots) ==
    LET r1 == valid_unit_divide(q, a)
        roots1 == IF r1.some THEN [roots EXCEPT ![1] = r1.val] ELSE roots
        offset1 == IF r1.some THEN 1 ELSE 0
        r2 == valid_unit_divide(c, q)
        roots2 == IF r2.some THEN [roots1 EXCEPT ![offset1 + 1] = r2.val]
                  ELSE roots1
        offset2 == IF r2.some THEN offset1 + 1 ELSE offset1
    IN  IF offset2 = 2
        THEN IF Gt(roots2[1], roots2[2])
             THEN [count |-> 2, roots |-> swap01(roots2)]
             ELSE IF Eq(roots2[1], roots2[2])
                  THEN [count |-> 1, roots |-> roots2] \* skip the double root
                  ELSE [count |-> 2, roots |-> roots2]
        ELSE [count |-> offset2, roots |-> roots2]

\* q without the choice of the sign by b.
stable_q_of_one_sign(b, r, bits) ==
    Div(Neg(f32_in_range(Sub(b, r), bits)), F(2))

\* -(b - r) / 2.0 or -(b + r) / 2.0, where the f32 range ends at 2^bits
stable_q(b, r, bits) ==
    IF Lt(b, Zero) THEN Div(Neg(f32_in_range(Sub(b, r), bits)), F(2))
    ELSE Div(Neg(f32_in_range(Add(b, r), bits)), F(2))

\* find_unit_quad_roots from `let r = dr as f32` on, where the f32 range
\* ends at 2^bits
unit_quad_roots_from_r(a, b, c, r, roots, bits) ==
    IF ~is_finite(r) THEN [count |-> 0, roots |-> roots]
    ELSE unit_quad_roots_of(a, c, stable_q(b, r, bits), roots)

\* find_unit_quad_roots(a, b, c, roots) for coefficients in units of
\* 2^exponent: the count of roots and the root buffer as the call leaves
\* it.  The discriminant is an f64 and does not overflow.
unit_quad_roots_in_units(a, b, c, roots, exponent) ==
    IF Eq(a, Zero)
    THEN IF valid_unit_divide(Neg(c), b).some
         THEN [count |-> 1,
               roots |-> [roots EXCEPT ![1] = valid_unit_divide(Neg(c), b).val]]
         ELSE [count |-> 0, roots |-> roots]
    ELSE \* use doubles so we don't overflow temporarily trying to compute R
         LET dr == Sub(Mul(b, b), Mul(Mul(F(4), a), c))
         IN  IF Lt(dr, Zero) THEN [count |-> 0, roots |-> roots]
             ELSE unit_quad_roots_from_r(
                      a, b, c, f32_in_range(Sqrt(dr), F32_MAX_EXP - exponent),
                      roots, F32_MAX_EXP - exponent)

\* find_unit_quad_roots(a, b, c, roots) for coefficients in units of 1
find_unit_quad_roots(a, b, c, roots) ==
    unit_quad_roots_in_units(a, b, c, roots, 0)

-----------------------------------------------------------------------------
(* f32x2 (path/src/f32x2_t.rs) and the Bezier evaluation and chopping of   *)
(* path/src/path_geometry.rs.  A pair of lanes is held as a Point, and a   *)
(* Rust slice index i is the sequence index i + 1.                         *)

splat(x) == Point(x, x)

f32x2_add(a, b) == Point(Add(a.x, b.x), Add(a.y, b.y))

f32x2_sub(a, b) == Point(Sub(a.x, b.x), Sub(a.y, b.y))

f32x2_mul(a, b) == Point(Mul(a.x, b.x), Mul(a.y, b.y))

\* The lanes of an exact result as f32 values of 24 bits.
f32x2_nearest(v) == Point(f32_nearest(v.x), f32_nearest(v.y))

\* pmax that keeps the second operand of a tie or of an incomparable pair.
pmax_keeping_second(a, b) == IF Lt(b, a) THEN a ELSE b

\* fn pmax(a: f32, b: f32) -> f32
pmax(a, b) == IF Lt(a, b) THEN b ELSE a

\* fn pmin(a: f32, b: f32) -> f32
pmin(a, b) == IF Lt(b, a) THEN b ELSE a

\* f32x2::min
f32x2_min(self, other) == Point(pmin(self.x, other.x), pmin(self.y, other.y))

\* f32x2::max
f32x2_max(self, other) == Point(pmax(self.x, other.x), pmax(self.y, other.y))

\* f32x2::max_component
max_component(self) == pmax(self.x, self.y)


times_2(value) == f32x2_add(value, value)

\* An interpolation that starts from the far end: v1 + (v0 - v1) * t.
interp_from_far_end(v0, v1, t) == f32x2_add(v1, f32x2_mul(f32x2_sub(v0, v1), t))

interp(v0, v1, t) == f32x2_add(v0, f32x2_mul(f32x2_sub(v1, v0), t))

QuadCoeff_from_points(points) ==
    LET c == points[1]
        p1 == points[2]
        p2 == points[3]
    IN  [a |-> f32x2_add(f32x2_sub(p2, times_2(p1)), c),
         b |-> times_2(f32x2_sub(p1, c)),
         c |-> c]

QuadCoeff_eval(self, t) ==
    f32x2_nearest(f32x2_add(
        f32x2_nearest(f32x2_mul(
            f32x2_nearest(f32x2_add(
                f32x2_nearest(f32x2_mul(self.a, t)), self.b)), t)), self.c))

CubicCoeff_from_points(points) ==
    LET p0 == points[1]
        p1 == points[2]
        p2 == points[3]
        p3 == points[4]
        three == splat(F(3))
    IN  [a |-> f32x2_sub(f32x2_add(p3, f32x2_mul(three, f32x2_sub(p1, p2))), p0),
         b |-> f32x2_mul(three, f32x2_add(f32x2_sub(p2, times_2(p1)), p0)),
         c |-> f32x2_mul(three, f32x2_sub(p1, p0)),
         d |-> p0]

CubicCoeff_eval(self, t) ==
    f32x2_add(
        f32x2_mul(
            f32x2_add(f32x2_mul(f32x2_add(f32x2_mul(self.a, t), self.b), t),
                      self.c),
            t),
        self.d)

eval_quad_at(src, t) == QuadCoeff_eval(QuadCoeff_from_points(src), splat(t))

eval_cubic_pos_at(src, t) ==
    CubicCoeff_eval(CubicCoeff_from_points(src), splat(t))

\* The five points chop_quad_at leaves in dst.
chop_quad_at(src, t) ==
    LET p0 == src[1]
        p1 == src[2]
        p2 == src[3]
        tt == splat(t)
        p01 == interp(p0, p1, tt)
        p12 == interp(p1, p2, tt)
    IN  <<p0, p01, interp(p01, p12, tt), p12, p2>>

\* The seven points chop_cubic_at2 leaves in dst.
chop_cubic_at2(src, t) ==
    LET p0 == src[1]
        p1 == src[2]
        p2 == src[3]
        p3 == src[4]
        tt == splat(t)
        ab == interp(p0, p1, tt)
        bc == interp(p1, p2, tt)
        cd == interp(p2, p3, tt)
        abc == interp(ab, bc, tt)
        bcd == interp(bc, cd, tt)
        abcd == interp(abc, bcd, tt)
    IN  <<p0, ab, abc, abcd, bcd, cd, p3>>

\* Point - Point
Point_sub(a, b) == Point(f32_nearest(Sub(a.x, b.x)), f32_nearest(Sub(a.y, b.y)))

\* The derivative with its factor of three: 3 * (a t^2 + b t + c).
eval_cubic_derivative_times_3(src, t) ==
    LET p0 == src[1]
        p1 == src[2]
        p2 == src[3]
        p3 == src[4]
        p1_times_2 == f32x2_nearest(times_2(p1))
        b_half == f32x2_nearest(f32x2_add(
                      f32x2_nearest(f32x2_sub(p2, p1_times_2)), p0))
        coeff == [a |-> f32x2_nearest(f32x2_sub(
                            f32x2_nearest(f32x2_add(p3,
                                f32x2_nearest(f32x2_mul(splat(F(3)),
                                    f32x2_nearest(f32x2_sub(p1, p2)))))), p0)),
                  b |-> f32x2_nearest(times_2(b_half)),
                  c |-> f32x2_nearest(f32x2_sub(p1, p0))]
    IN  f32x2_nearest(f32x2_mul(splat(F(3)), QuadCoeff_eval(coeff, splat(t))))

eval_cubic_derivative(src, t) ==
    LET p0 == src[1]
        p1 == src[2]
        p2 == src[3]
        p3 == src[4]
        p1_times_2 == f32x2_nearest(times_2(p1))
        b_half == f32x2_nearest(f32x2_add(
                      f32x2_nearest(f32x2_sub(p2, p1_times_2)), p0))
        coeff == [a |-> f32x2_nearest(f32x2_sub(
                            f32x2_nearest(f32x2_add(p3,
                                f32x2_nearest(f32x2_mul(splat(F(3)),
                                    f32x2_nearest(f32x2_sub(p1, p2)))))), p0)),
                  b |-> f32x2_nearest(times_2(b_half)),
                  c |-> f32x2_nearest(f32x2_sub(p1, p0))]
    IN  QuadCoeff_eval(coeff, splat(t))

eval_cubic_tangent_at(src, t) ==
    IF \/ Eq(t, Zero) /\ PointEq(src[1], src[2])
       \/ Eq(t, One) /\ PointEq(src[3], src[4])
    THEN LET tangent == IF Eq(t, Zero) THEN Point_sub(src[3], src[1])
                        ELSE Point_sub(src[4], src[2])
         IN  IF Eq(tangent.x, Zero) /\ Eq(tangent.y, Zero)
             THEN Point_sub(src[4], src[1])
             ELSE tangent
    ELSE eval_cubic_derivative(src, t)

eval_quad_tangent_at(src, tol) ==
    IF \/ Eq(tol, Zero) /\ PointEq(src[1], src[2])
       \/ Eq(tol, One) /\ PointEq(src[2], src[3])
    THEN Point_sub(src[3], src[1])
    ELSE LET p0 == src[1]
             p1 == src[2]
             p2 == src[3]
             b == f32x2_nearest(f32x2_sub(p1, p0))
             a == f32x2_nearest(f32x2_sub(f32x2_nearest(f32x2_sub(p2, p1)), b))
             t == f32x2_nearest(f32x2_add(
                      f32x2_nearest(f32x2_mul(a, splat(tol))), b))
         IN  f32x2_nearest(f32x2_add(t, t))


-----------------------------------------------------------------------------
(* find_quad_max_curvature (path/src/path_geometry.rs)                     *)
(*                                                                         *)
(* The products of find_quad_max_curvature overflow for large finite       *)
(* control points.  The control points of a call are held in units of      *)
(* 2^exponent, with integer coordinates: a difference of coordinates is    *)
(* finite, and a product of two of them is p * 2^(2 * exponent), which     *)
(* is beyond the f32 range (and is an infinity) when |p| is 2^(128 - 2 *   *)
(* exponent) or more.  With exponent 0 the arithmetic is the exact one.    *)

\* x * y for x and y in units of 2^exponent, with the overflow of f32.
mul_f32(x, y, exponent) ==
    f32_in_range(Mul(x, y), F32_MAX_EXP - 2 * exponent)

\* NormalizedF32::new: a value of [0, 1], or no value
NormalizedF32_new(n) ==
    IF is_finite(n) /\ Le(Zero, n) /\ Le(n, One) THEN Some(n) ELSE None

\* A function that came back with value.
returned(value) == [panicked |-> FALSE, value |-> value]

\* Option::unwrap: the value, or a panic on no value
unwrap(option) ==
    IF option.some THEN returned(option.val) ELSE [panicked |-> TRUE]

\* let mut numer = -(ax * bx + ay * by)
curvature_numer(ax, ay, bx, by, exponent) ==
    Neg(Add(mul_f32(ax, bx, exponent), mul_f32(ay, by, exponent)))

\* let mut denom = bx * bx + by * by
curvature_denom(bx, by, exponent) ==
    Add(mul_f32(bx, bx, exponent), mul_f32(by, by, exponent))

\* find_quad_max_curvature from `if numer <= 0.0` on
unit_ratio(numer, denom) ==
    IF Le(numer, Zero) THEN returned(Zero)
    ELSE IF Ge(numer, denom) THEN returned(One)
    ELSE unwrap(NormalizedF32_new(Div(numer, denom)))

\* find_quad_max_curvature from `if denom < 0.0` on
unit_ratio_of_signed(numer, denom) ==
    IF Lt(denom, Zero) THEN unit_ratio(Neg(numer), Neg(denom))
    ELSE unit_ratio(numer, denom)

\* find_quad_max_curvature once ax, ay, bx and by are known
max_curvature_of(ax, ay, bx, by, exponent) ==
    unit_ratio_of_signed(curvature_numer(ax, ay, bx, by, exponent),
                         curvature_denom(bx, by, exponent))

\* find_quad_max_curvature(src), src in units of 2^exponent
find_quad_max_curvature(src, exponent) ==
    max_curvature_of(Sub(src[2].x, src[1].x),
                     Sub(src[2].y, src[1].y),
                     Add(Sub(Sub(src[1].x, src[2].x), src[2].x), src[3].x),
                     Add(Sub(Sub(src[1].y, src[2].y), src[2].y), src[3].y),
                     exponent)


-----------------------------------------------------------------------------
(* find_cubic_max_curvature and solve_cubic_poly                           *)
(* (path/src/path_geometry.rs)                                             *)
(*                                                                         *)
(* solve_cubic_poly computes the real roots of                             *)
(* coeff[0] t^3 + coeff[1] t^2 + coeff[2] t + coeff[3] with acos, cos and  *)
(* powf.  The model holds what those formulas compute: with three real     *)
(* roots, -2 sqrt(q) cos((theta + 2 k pi) / 3) - a / 3 is the smallest     *)
(* (k = 0), the largest (k = 1) and the middle (k = -1) root; otherwise    *)
(* the algebraic formula is the real root that is not a double root.  A    *)
(* root is located by the signs of the cubic and its derivatives on the    *)
(* grid of the multiples of 1 / RootGrid in [-1, 2] and is held rounded    *)
(* down to that grid; a root outside [-1, 2] is held as -1 or 2.           *)
(* r * r - q3 is minus the discriminant of the cubic over                  *)
(* 108 * coeff[0]^4; only its sign is held, and where the exact value is   *)
(* zero the sign of the rounded f32 value is an input of the call.         *)

formulate_f1_dot_f2(src) ==
    LET a == Sub(src[2], src[1])
        b == Add(Sub(src[3], Mul(F(2), src[2])), src[1])
        c == Sub(Add(src[4], Mul(F(3), Sub(src[2], src[3]))), src[1])
    IN  <<Mul(c, c),
          Mul(Mul(F(3), b), c),
          Add(Mul(Mul(F(2), b), b), Mul(c, a)),
          Mul(a, b)>>

\* NormalizedF32::new_clamped: the value held inside [0, 1]; zero for a
\* value that is not finite.
NormalizedF32_new_clamped(n) ==
    IF ~is_finite(n) THEN Zero
    ELSE IF Lt(n, Zero) THEN Zero
    ELSE IF Gt(n, One) THEN One
    ELSE n

\* array.swap(i, j), with the indices of the sequence.
swap(array, i, j) == [array EXCEPT ![i] = array[j], ![j] = array[i]]

\* if array[i] > array[j] { array.swap(i, j) }, with the indices of the
\* sequence.
swap_if_greater(array, i, j) ==
    IF Gt(array[i], array[j]) THEN swap(array, i, j) ELSE array

sort_array3(array) ==
    swap_if_greater(swap_if_greater(swap_if_greater(array, 1, 2), 2, 3), 1, 2)

\* A collapse that keeps all three values.
collapse_duplicates3_skipped(array) == 3

collapse_duplicates3(array) ==
    IF Eq(array[1], array[2]) THEN 1
    ELSE IF Eq(array[2], array[3]) THEN 2
    ELSE 3

\* The discriminant of the cubic:
\* 18 c0 c1 c2 c3 - 4 c1^3 c3 + c1^2 c2^2 - 4 c0 c2^3 - 27 c0^2 c3^2.
discriminant(coeff) ==
    LET c0 == coeff[1]
        c1 == coeff[2]
        c2 == coeff[3]
        c3 == coeff[4]
    IN  Sub(Sub(Add(Sub(Mul(F(18), Mul(Mul(c0, c1), Mul(c2, c3))),
                        Mul(F(4), Mul(Mul(Mul(c1, c1), c1), c3))),
                    Mul(Mul(c1, c1), Mul(c2, c2))),
                Mul(F(4), Mul(c0, Mul(Mul(c2, c2), c2)))),
            Mul(F(27), Mul(Mul(c0, c0), Mul(c3, c3))))

\* The sign of r * r - q3 as f32 holds it: the exact sign, or the sign of
\* the rounding where the exact value is zero.
rounded_sign(exact, rounding) == IF exact # 0 THEN exact ELSE rounding

r2_minus_q3_sign(coeff, rounding) ==
    rounded_sign(-Sign(discriminant(coeff)), rounding)

\* The signs at t = j / RootGrid of the cubic divided by coeff[0], and of
\* its first and second derivatives (each scaled by a power of RootGrid).
monic_sign(coeff, j) ==
    Sign(coeff[1])
    * Sign(Add(Add(Mul(coeff[1], F(j * j * j)),
                   Mul(coeff[2], F(j * j * RootGrid))),
               Add(Mul(coeff[3], F(j * RootGrid * RootGrid)),
                   Mul(coeff[4], F(RootGrid * RootGrid * RootGrid)))))

monic_sign_d1(coeff, j) ==
    Sign(coeff[1])
    * Sign(Add(Add(Mul(coeff[1], F(3 * j * j)),
                   Mul(coeff[2], F(2 * j * RootGrid))),
               Mul(coeff[3], F(RootGrid * RootGrid))))

monic_sign_d2(coeff, j) ==
    Sign(coeff[1])
    * Sign(Add(Mul(coeff[1], F(6 * j)), Mul(coeff[2], F(2 * RootGrid))))

\* The number of roots (with multiplicity) below t = j / RootGrid, of a
\* cubic whose roots are all real.
\* The number of roots (with multiplicity) below a place where the cubic
\* and its derivatives have the signs s0, s1 and s2.
roots_below_by_signs(s0, s1, s2) ==
    IF s0 > 0 THEN (IF s1 > 0 /\ s2 > 0 THEN 3 ELSE 1)
    ELSE IF s0 < 0 THEN (IF s1 > 0 /\ s2 < 0 THEN 0 ELSE 2)
    ELSE IF s1 < 0 THEN 1
    ELSE IF s1 = 0 THEN (IF s2 > 0 THEN 1 ELSE 0)
    ELSE IF s2 < 0 THEN 0 ELSE 2

roots_below(coeff, j) ==
    roots_below_by_signs(monic_sign(coeff, j), monic_sign_d1(coeff, j),
                         monic_sign_d2(coeff, j))

\* t = j / RootGrid is not above the real root that the algebraic formula
\* computes.
not_above_real_root_by_signs(s0, s1, s2) ==
    \/ s0 < 0
    \/ s0 = 0 /\ (s1 # 0 \/ s2 <= 0)

not_above_real_root(coeff, j) ==
    not_above_real_root_by_signs(monic_sign(coeff, j), monic_sign_d1(coeff, j),
                                 monic_sign_d2(coeff, j))

\* t = j / RootGrid is not above the root of the given rank: 1 the
\* smallest, 2 the middle and 3 the largest of three real roots, 0 the root
\* of the algebraic formula.
not_above_root(coeff, rank, j) ==
    IF rank = 0 THEN not_above_real_root(coeff, j)
    ELSE roots_below(coeff, j) < rank

\* The largest j in lo .. hi - 1 with j / RootGrid not above the root, by
\* bisection: lo is not above the root (or is below the grid) and hi is
\* above the root (or is above the grid).
RECURSIVE root_cell(_, _, _, _)
root_cell(coeff, rank, lo, hi) ==
    IF hi - lo <= 1 THEN lo
    ELSE root_cell(coeff, rank,
                   IF not_above_root(coeff, rank, (lo + hi) \div 2)
                   THEN (lo + hi) \div 2 ELSE lo,
                   IF not_above_root(coeff, rank, (lo + hi) \div 2)
                   THEN hi ELSE (lo + hi) \div 2)

\* The root of the given rank, rounded down to the grid of the multiples of
\* 1 / RootGrid in [-1, 2]; -1 for a root below the grid.
cell_on_grid(j) == IF j < -RootGrid THEN F(-1) ELSE Rat(j, RootGrid)

root_on_grid(coeff, rank) ==
    cell_on_grid(root_cell(coeff, rank, -RootGrid - 1, 2 * RootGrid + 1))

\* neg2_root_q * ((theta + 2 k pi) / 3).cos() - adiv3 for k = 0, 1, -1:
\* the smallest, the largest and the middle root.
trig_roots(coeff) ==
    <<root_on_grid(coeff, 1), root_on_grid(coeff, 3), root_on_grid(coeff, 2)>>

\* a - adiv3 of the branch of one real root.
algebraic_root(coeff) == root_on_grid(coeff, 0)

\* for i in 0..count { t_values[i] = tmp_t[i].to_normalized() }
copy_roots(found, t_values) ==
    [count |-> found.count,
     t_values |-> [i \in 1 .. 3 |->
                     IF i <= found.count THEN found.roots[i] ELSE t_values[i]]]

\* The three roots as they are stored, clamped, in t_values.
clamped_roots(found) ==
    <<NormalizedF32_new_clamped(found[1]),
      NormalizedF32_new_clamped(found[2]),
      NormalizedF32_new_clamped(found[3])>>

\* collapse_duplicates3 on the sorted t_values.
collapsed(sorted) ==
    [count |-> collapse_duplicates3(sorted), t_values |-> sorted]

\* The count of roots and t_values as the call leaves them.
solve_cubic_poly(coeff, t_values, rounding) ==
    IF is_nearly_zero_within_tolerance(coeff[1], SCALAR_NEARLY_ZERO)
    THEN \* we're just a quadratic
         copy_roots(find_unit_quad_roots(coeff[2], coeff[3], coeff[4],
                                         new_t_values),
                    t_values)
    ELSE IF r2_minus_q3_sign(coeff, rounding) < 0
    THEN \* we have 3 real roots
         collapsed(sort_array3(clamped_roots(trig_roots(coeff))))
    ELSE \* we have 1 real root
         [count |-> 1,
          t_values |-> [t_values EXCEPT
                           ![1] = NormalizedF32_new_clamped(algebraic_root(coeff))]]

\* coeff_x[i] += coeff_y[i]
add_coefficients(coeff_x, coeff_y) ==
    [i \in 1 .. 4 |-> Add(coeff_x[i], coeff_y[i])]

\* &t_values[0..len]
first_values(solved) == SubSeq(solved.t_values, 1, solved.count)

\* The slice find_cubic_max_curvature returns.
find_cubic_max_curvature(src, t_values, rounding) ==
    first_values(
        solve_cubic_poly(
            add_coefficients(
                formulate_f1_dot_f2(<<src[1].x, src[2].x, src[3].x, src[4].x>>),
                formulate_f1_dot_f2(<<src[1].y, src[2].y, src[3].y, src[4].y>>)),
            t_values, rounding))

-----------------------------------------------------------------------------
(* Conic (path/src/path_geometry.rs)                                       *)
(*                                                                         *)
(* The coordinates and weights that Conic::chop produces are not           *)
(* representable in general (the weight of a child is a square root), so   *)
(* in chop every f32 result is rounded: RoundF32 rounds to the nearest     *)
(* multiple of 1 / SqrtGrid.  The comparisons of subdivide are exact.      *)

\* The rounding of an f32 result: the nearest multiple of 1 / SqrtGrid.
RoundF32(x) ==
    IF ~is_finite(x) THEN x
    ELSE LET q == x[1] \div x[2]
             r == x[1] % x[2]
         IN  Rat(q * SqrtGrid + (2 * r * SqrtGrid + x[2]) \div (2 * x[2]),
                 SqrtGrid)

\* f32::sqrt of a rounded value, rounded down to a multiple of 1 / SqrtGrid.
sqrt_f32(x) ==
    IF IsNaN(x) \/ x = NegInf THEN NaN
    ELSE IF x = PosInf THEN PosInf
    ELSE IF x[1] < 0 THEN NaN
    ELSE Rat(ISqrt((SqrtGrid * SqrtGrid * x[1]) \div x[2]), SqrtGrid)

Half == <<1, 2>>

\* Point::is_finite
Point_is_finite(p) == is_finite(p.x) /\ is_finite(p.y)

\* The rounded lanes of an f32x2.
round_f32x2(v) == Point(RoundF32(v.x), RoundF32(v.y))

Conic_new(pt0, pt1, pt2, weight) ==
    [points |-> <<pt0, pt1, pt2>>, weight |-> weight]

subdivide_weight_value(w) ==
    sqrt_f32(RoundF32(Add(Half, RoundF32(Mul(w, Half)))))

\* The middle point of chop recomputed in f64 and narrowed to f32.
chop_middle_f64(self) ==
    LET w_d == self.weight
        w_2 == Mul(w_d, F(2))
        scale_half == Mul(Div(One, Add(One, w_d)), Half)
    IN  Point(RoundF32(Mul(Add(Add(self.points[1].x,
                                   Mul(w_2, self.points[2].x)),
                               self.points[3].x),
                           scale_half)),
              RoundF32(Mul(Add(Add(self.points[1].y,
                                   Mul(w_2, self.points[2].y)),
                               self.points[3].y),
                           scale_half)))

\* The middle point of chop: the f32 value, or the f64 one when the f32
\* value is not finite.
finite_or_f64(self, m) ==
    IF ~Point_is_finite(m) THEN chop_middle_f64(self) ELSE m

\* m = (p0 + times_2(wp1) + p2) * scale * 0.5
chop_middle(self, scale, wp1) ==
    finite_or_f64(
        self,
        round_f32x2(f32x2_mul(
            round_f32x2(f32x2_mul(
                round_f32x2(f32x2_add(
                    round_f32x2(f32x2_add(self.points[1],
                                          round_f32x2(times_2(wp1)))),
                    self.points[3])),
                scale)),
            splat(Half))))

\* The two halves of the conic around the middle point m_pt.
chop_halves(self, scale, wp1, m_pt) ==
    <<[points |-> <<self.points[1],
                    round_f32x2(f32x2_mul(
                        round_f32x2(f32x2_add(self.points[1], wp1)), scale)),
                    m_pt>>,
       weight |-> subdivide_weight_value(self.weight)],
      [points |-> <<m_pt,
                    round_f32x2(f32x2_mul(
                        round_f32x2(f32x2_add(wp1, self.points[3])), scale)),
                    self.points[3]>>,
       weight |-> subdivide_weight_value(self.weight)]>>

\* Conic::chop with scale = 1 / (1 + w) and wp1 = w * p1.
chop_scaled(self, scale, wp1) ==
    chop_halves(self, scale, wp1, chop_middle(self, scale, wp1))

\* Conic::chop: the two halves of the conic.
Conic_chop(self) ==
    chop_scaled(self,
                splat(RoundF32(scalar_invert(RoundF32(Add(One, self.weight))))),
                round_f32x2(f32x2_mul(splat(self.weight), self.points[2])))

\* returns true if (a <= b <= c) || (a >= b >= c)
between(a, b, c) == Le(Mul(Sub(a, b), Sub(c, b)), Zero)

\* The repair of subdivide that leaves the chopped halves as they are.
keep_y_order_skipped(dst, start_y, end_y) == dst

\* The end that mid_y is closer to.
closer_y(mid_y, start_y, end_y) ==
    IF Lt(FAbs(Sub(mid_y, start_y)), FAbs(Sub(mid_y, end_y)))
    THEN start_y ELSE end_y

\* If the computed midpoint is outside the ends, move it to the closer one.
move_mid_y(dst, start_y, end_y) ==
    IF ~between(start_y, dst[1].points[3].y, end_y)
    THEN [dst EXCEPT
            ![1].points[3].y = closer_y(dst[1].points[3].y, start_y, end_y),
            ![2].points[1].y = closer_y(dst[1].points[3].y, start_y, end_y)]
    ELSE dst

\* If the 1st control is not between the start and end, put it at the start.
move_first_control_y(dst, start_y) ==
    IF ~between(start_y, dst[1].points[2].y, dst[1].points[3].y)
    THEN [dst EXCEPT ![1].points[2].y = start_y]
    ELSE dst

\* If the 2nd control is not between the start and end, put it at the end.
move_second_control_y(dst, end_y) ==
    IF ~between(dst[2].points[1].y, dst[2].points[2].y, end_y)
    THEN [dst EXCEPT ![2].points[2].y = end_y]
    ELSE dst

\* The repair of subdivide for a y-monotonic conic: the chopped halves
\* dst are put back in y-order.
keep_y_order(dst, start_y, end_y) ==
    move_second_control_y(
        move_first_control_y(move_mid_y(dst, start_y, end_y), start_y),
        end_y)

\* The three debug assertions of subdivide: all five points are in order.
five_points_in_order(dst, start_y, end_y) ==
    /\ between(start_y, dst[1].points[2].y, dst[1].points[3].y)
    /\ between(dst[1].points[2].y, dst[1].points[3].y, dst[2].points[2].y)
    /\ between(dst[1].points[3].y, dst[2].points[2].y, end_y)

\* The conic is monotonic in y.
y_monotonic(src) ==
    between(src.points[1].y, src.points[2].y, src.points[3].y)

\* The chopped halves dst of src, repaired when src is monotonic in y.
in_y_order(dst, src) ==
    IF y_monotonic(src)
    THEN keep_y_order(dst, src.points[1].y, src.points[3].y)
    ELSE dst

\* The debug assertions hold for the halves dst of src.
asserts_hold(dst, src) ==
    y_monotonic(src) =>
        five_points_in_order(dst, src.points[1].y, src.points[3].y)

\* The points of the two halves one after the other, and whether the
\* assertions held in both and here.
joined(ok, first, second) ==
    [asserts |-> ok /\ first.asserts /\ second.asserts,
     points |-> first.points \o second.points]

\* subdivide: the points written after the first one, and whether the
\* assertions held at every chop.
RECURSIVE subdivide(_, _)
subdivide_halves(dst, src, level) ==
    joined(asserts_hold(dst, src),
           subdivide(dst[1], level - 1),
           subdivide(dst[2], level - 1))

subdivide(src, level) ==
    IF level = 0
    THEN [asserts |-> TRUE, points |-> <<src.points[2], src.points[3]>>]
    ELSE subdivide_halves(in_y_order(Conic_chop(src), src), src, level)

\* The recovery of chop_into_quads_pow2 that leaves the points as generated.
pin_to_hull_skipped(self, generated) == generated

\* The same recovery pinning the last point too.
pin_to_hull_with_last(self, generated) ==
    [i \in 1 .. Len(generated) |->
        IF i = 1 THEN generated[i] ELSE self.points[2]]

\* The recovery of chop_into_quads_pow2: every point between the first and
\* the last is pinned to the middle of the hull.
pin_to_hull(self, generated) ==
    [i \in 1 .. Len(generated) |->
        IF i = 1 \/ i = Len(generated) THEN generated[i] ELSE self.points[2]]

\* The points subdivide leaves behind points[0].
generated_points(self, pow2) ==
    <<self.points[1]>> \o subdivide(self, pow2).points

\* The first pt_count points after the recovery: pinned when one of them
\* is not finite.
pinned_if_not_finite(self, generated, pt_count) ==
    IF \E i \in 1 .. pt_count : ~Point_is_finite(generated[i])
    THEN pin_to_hull(self, generated)
    ELSE generated

\* u8::max and the larger of two depths
max_u8(a, b) == IF a < b THEN b ELSE a

\* The indices of the buffer that the calls of subdivide write, in the
\* order of the writes.  A slice is held by the index of the buffer it
\* starts at: rest is the start of the slice that subdivide returns, and
\* depth is the number of nested calls of subdivide below this one.

\* subdivide at level 0 whose returned slice starts one point early.
subdivide_leaf_writes_overlapping(start) ==
    [indices |-> <<start, start + 1>>, rest |-> start + 1, depth |-> 0]

\* subdivide at level 0: points[0] and points[1] are written and
\* &mut points[2..] is returned.
subdivide_leaf_writes(start) ==
    [indices |-> <<start, start + 1>>, rest |-> start + 2, depth |-> 0]

\* The writes of the two recursive calls of subdivide, one after the other.
joined_writes(first, second) ==
    [indices |-> first.indices \o second.indices,
     rest |-> second.rest,
     depth |-> 1 + max_u8(first.depth, second.depth)]

RECURSIVE subdivide_writes(_, _)
\* subdivide(&dst.1, points, level) for the points that the call of
\* subdivide on dst.0 returned.
subdivide_second_half(first, level) ==
    joined_writes(first, subdivide_writes(first.rest, level))

\* The writes of subdivide(src, points, level) for points starting at the
\* index start of the buffer.
subdivide_writes(start, level) ==
    IF level = 0 THEN subdivide_leaf_writes(start)
    ELSE subdivide_second_half(subdivide_writes(start, level - 1), level - 1)

\* The indices that the recovery of chop_into_quads_pow2 writes:
\* points.iter_mut().take(pt_count - 1).skip(1)
pinned_indices(generated, pt_count) ==
    IF \E i \in 1 .. pt_count : ~Point_is_finite(generated[i])
    THEN [i \in 1 .. pt_count - 2 |-> i]
    ELSE <<>>

\* The indices that Conic::chop_into_quads_pow2 writes and reads:
\* points[0], then the writes of subdivide on &mut points[1..], then the
\* finiteness test of points.iter().take(pt_count), then the recovery.
chop_into_quads_pow2_writes(generated, pow2) ==
    [subdivided |-> <<0>> \o subdivide_writes(1, pow2).indices,
     depth |-> subdivide_writes(1, pow2).depth,
     tested |-> [i \in 1 .. 2 * Shl1(pow2) + 1 |-> i - 1],
     pinned |-> pinned_indices(generated, 2 * Shl1(pow2) + 1)]

\* Conic::chop_into_quads_pow2 from the points that subdivide generated
chopped_points(self, generated, pow2) ==
    [points |-> pinned_if_not_finite(self, generated, 2 * Shl1(pow2) + 1),
     quads |-> Shl1(pow2),
     writes |-> chop_into_quads_pow2_writes(generated, pow2)]

\* Conic::chop_into_quads_pow2: the first pt_count points of the buffer,
\* the number of quads, and the indices of the buffer it wrote and read.
chop_into_quads_pow2(self, pow2) ==
    chopped_points(self, generated_points(self, pow2), pow2)

\* Limit the number of suggested quads to approximate a conic
MAX_CONIC_TO_QUAD_POW2 == 4

\* The loop of compute_quad_pow2 from its i-th iteration on.
RECURSIVE quarterings(_, _, _, _)
quarterings(error, tolerance, pow2, i) ==
    IF i >= MAX_CONIC_TO_QUAD_POW2 THEN pow2
    ELSE IF Le(error, tolerance) THEN pow2
    ELSE quarterings(Mul(error, <<1, 4>>), tolerance, pow2 + 1, i + 1)

\* compute_quad_pow2 without the floor of one subdivision.
at_least_one_unfloored(pow2) == pow2

\* Unlike Skia, we always expect `pow2` to be at least 1.
at_least_one(pow2) == max_u8(pow2, 1)

\* The error of one quad against the conic, after
\* "High order approximation of conic sections by quadratic splines"
\* by Michael Floater, 1993
error_estimate(self) ==
    LET a == Sub(self.weight, One)
        k == Div(a, Mul(F(4), Add(F(2), a)))
        x == Mul(k, Add(Sub(self.points[1].x, Mul(F(2), self.points[2].x)),
                        self.points[3].x))
        y == Mul(k, Add(Sub(self.points[1].y, Mul(F(2), self.points[2].y)),
                        self.points[3].y))
    IN  Sqrt(Add(Mul(x, x), Mul(y, y)))

\* Conic::compute_quad_pow2
compute_quad_pow2(self, tolerance) ==
    IF Lt(tolerance, Zero) \/ ~is_finite(tolerance) THEN None
    ELSE IF \/ ~Point_is_finite(self.points[1])
            \/ ~Point_is_finite(self.points[2])
            \/ ~Point_is_finite(self.points[3])
         THEN None
    ELSE Some(at_least_one(quarterings(error_estimate(self), tolerance, 0, 0)))

\* The tolerance AutoConicToQuads::compute asks for.
QuadTolerance == <<1, 4>>

\* Some(AutoConicToQuads { points, len })
quads_of(chopped) == Some([points |-> chopped.points, len |-> chopped.quads])

\* The length of the buffer of AutoConicToQuads: pub points: [Point; 64]
BUFFER_POINTS == 64

\* AutoConicToQuads::compute from the conic and its pow2.
chop_by(conic, pow2) ==
    IF ~pow2.some THEN None
    ELSE quads_of(chop_into_quads_pow2(conic, pow2.val))

\* AutoConicToQuads::compute from the conic.
compute_conic(conic) == chop_by(conic, compute_quad_pow2(conic, QuadTolerance))

\* AutoConicToQuads::compute
AutoConicToQuads_compute(pt0, pt1, pt2, weight) ==
    compute_conic(Conic_new(pt0, pt1, pt2, weight))

-----------------------------------------------------------------------------

(* Rectangles and fill_rect (src/scan/mod.rs)                              *)
(*                                                                         *)
(* A Rect has f32 edges (left <= right, top <= bottom); an IntRect and a   *)
(* ScreenIntRect have an integer origin and a non-zero integer size, and   *)
(* the origin of a ScreenIntRect is not negative.  The blitter is held as  *)
(* the sequence of the rectangles it was asked to blit.                    *)

I32_MAX == 2147483647

I32_MIN == -I32_MAX - 1

cmp_max(a, b) == IF a < b THEN b ELSE a

cmp_min(a, b) == IF b < a THEN b ELSE a

\* i32::saturate_round: floor(x + 0.5), held inside the range of i32.  No
\* f32 lies strictly between I32_MIN and -I32_MAX, so the lower test is
\* written with -I32_MAX.
saturate_round(x) ==
    IF Ge(x, F(I32_MAX)) THEN I32_MAX
    ELSE IF Le(x, F(-I32_MAX)) THEN I32_MIN
    ELSE Add(x, Half)[1] \div Add(x, Half)[2]

Rect_from_ltrb(left, top, right, bottom) ==
    [left |-> left, top |-> top, right |-> right, bottom |-> bottom]

\* IntRect::from_xywh: no rectangle when a side is zero or the right or
\* bottom edge overflows i32.
IntRect_from_xywh(x, y, width, height) ==
    IF width = 0 \/ height = 0 THEN None
    ELSE IF x > I32_MAX - width \/ y > I32_MAX - height THEN None
    ELSE Some([x |-> x, y |-> y, width |-> width, height |-> height])

IntRect_right(self) == self.x + self.width

IntRect_bottom(self) == self.y + self.height

\* Rect::round: the origin is rounded and each side is at least one.
Rect_round(self) ==
    IntRect_from_xywh(
        saturate_round(self.left),
        saturate_round(self.top),
        cmp_max(1, saturate_round(Sub(self.right, self.left))),
        cmp_max(1, saturate_round(Sub(self.bottom, self.top))))

\* IntRect::intersect
IntRect_intersect(self, other) ==
    LET left == cmp_max(self.x, other.x)
        top == cmp_max(self.y, other.y)
        right == cmp_min(IntRect_right(self), IntRect_right(other))
        bottom == cmp_min(IntRect_bottom(self), IntRect_bottom(other))
    IN  IF right - left < 0 \/ bottom - top < 0 THEN None
        ELSE IntRect_from_xywh(left, top, right - left, bottom - top)

\* ScreenIntRect::to_int_rect
to_int_rect(self) ==
    [x |-> self.x, y |-> self.y, width |-> self.width, height |-> self.height]

\* IntRect::to_screen_int_rect: no rectangle when the origin is negative.
to_screen_int_rect(self) ==
    IF self.x < 0 \/ self.y < 0 THEN None ELSE Some(self)

\* A fill that blits the rectangle without clipping it.
fill_int_rect_unclipped(rect, clip, blitter) ==
    IF ~to_screen_int_rect(rect).some THEN blitter
    ELSE Append(blitter, to_screen_int_rect(rect).val)

\* fill_int_rect: the blitter after the call.
fill_int_rect(rect, clip, blitter) ==
    LET clipped == IntRect_intersect(rect, to_int_rect(clip))
    IN  IF ~clipped.some THEN blitter
        ELSE IF ~to_screen_int_rect(clipped.val).some THEN blitter
        ELSE Append(blitter, to_screen_int_rect(clipped.val).val)

\* fill_rect: the blitter after the call.
fill_rect(rect, clip, blitter) ==
    IF Rect_round(rect).some
    THEN fill_int_rect(Rect_round(rect).val, clip, blitter)
    ELSE blitter

-----------------------------------------------------------------------------

-----------------------------------------------------------------------------
(* Inputs                                                                  *)

Coefs == {F(i) : i \in (-1) .. MaxCoef}

\* Every transform with coefficients in Coefs: identity, translate-only,
\* scale-only, skew-only, singular and general ones.
Transforms ==
    {from_row(sx, ky, kx, sy, tx, ty) :
        sx \in Coefs, ky \in Coefs, kx \in Coefs,
        sy \in Coefs, tx \in Coefs, ty \in Coefs}

Args == {F(i) : i \in (-1) .. MaxArg}

\* The operands of the compositions, built by the constructors.
Operands ==
    {identity}
    \cup {from_translate(x, y) : x \in Args, y \in Args}
    \cup {from_scale(x, y) : x \in Args, y \in Args}
    \cup {from_skew(x, y) : x \in Args, y \in Args}
    \cup {from_sin_cos(x, y) : x \in Args, y \in Args}

Points == {Point(x, y) : x \in Args, y \in Args}

-----------------------------------------------------------------------------
(* The calls                                                               *)

Init ==
    /\ call = "idle"
    /\ input = <<>>
    /\ output = <<>>

\* The call returns to its caller.
Return ==
    /\ call # "idle"
    /\ call' = "idle"
    /\ input' = <<>>
    /\ output' = <<>>

\* ts.invert()
Invert ==
    /\ call = "idle"
    /\ \E ts \in Transforms :
          /\ call' = "invert"
          /\ input' = [ts |-> ts]
          /\ output' = Transform_invert(ts)

\* The classification predicates of a transform.
Classify ==
    /\ call = "idle"
    /\ \E ts \in Transforms :
          /\ call' = "classify"
          /\ input' = [ts |-> ts]
          /\ output' = [is_identity |-> is_identity(ts),
                        is_scale |-> is_scale(ts),
                        is_skew |-> is_skew(ts),
                        is_translate |-> is_translate(ts),
                        is_scale_translate |-> is_scale_translate(ts),
                        has_scale |-> has_scale(ts),
                        has_skew |-> has_skew(ts),
                        has_translate |-> has_translate(ts)]

\* The points of the slices given to map_points.
SlicePoint(i) == Point(F(i), F(i - 2))

Slices == {[i \in 1 .. n |-> SlicePoint(i)] : n \in 0 .. MaxLen}

\* tests::concat: the transform and the factors of the test.
TestTransform ==
    from_row(Rat(12, 10), Rat(34, 10), Rat(-56, 10), Rat(-78, 10),
             Rat(12, 10), Rat(34, 10))

TestScale == <<F(2), F(-4)>>

ScaleInputs ==
    {[ts |-> ts, sx |-> sx, sy |-> sy] :
        ts \in Transforms, sx \in Coefs, sy \in Coefs}
    \cup {[ts |-> TestTransform, sx |-> TestScale[1], sy |-> TestScale[2]]}

\* ts.map_point(&mut point)
MapPoint ==
    /\ call = "idle"
    /\ \E ts \in Transforms, point \in Points :
          /\ call' = "map_point"
          /\ input' = [ts |-> ts, point |-> point]
          /\ output' = map_point(ts, point)

\* ts.map_points(&mut points)
MapPoints ==
    /\ call = "idle"
    /\ \E ts \in Transforms, points \in Slices :
          /\ call' = "map_points"
          /\ input' = [ts |-> ts, points |-> points]
          /\ output' = map_points(ts, points)

\* ts.pre_scale(sx, sy)
PreScale ==
    /\ call = "idle"
    /\ \E in \in ScaleInputs :
          /\ call' = "pre_scale"
          /\ input' = in
          /\ output' = pre_scale(in.ts, in.sx, in.sy)

\* ts.post_scale(sx, sy)
PostScale ==
    /\ call = "idle"
    /\ \E in \in ScaleInputs :
          /\ call' = "post_scale"
          /\ input' = in
          /\ output' = post_scale(in.ts, in.sx, in.sy)

\* a.pre_concat(b).map_point(&mut point)
PreConcat ==
    /\ call = "idle"
    /\ \E a \in Operands, b \in Operands, point \in Points :
          /\ call' = "pre_concat"
          /\ input' = [a |-> a, b |-> b, point |-> point]
          /\ output' = [ts |-> pre_concat(a, b),
                        point |-> map_point(pre_concat(a, b), point)]

\* a.post_concat(b).map_point(&mut point)
PostConcat ==
    /\ call = "idle"
    /\ \E a \in Operands, b \in Operands, point \in Points :
          /\ call' = "post_concat"
          /\ input' = [a |-> a, b |-> b, point |-> point]
          /\ output' = [ts |-> post_concat(a, b),
                        point |-> map_point(post_concat(a, b), point)]

\* a.pre_concat(b).pre_concat(c)
PreConcatChain ==
    /\ call = "idle"
    /\ \E a \in Operands, b \in Operands, c \in Operands :
          /\ call' = "pre_concat_chain"
          /\ input' = [a |-> a, b |-> b, c |-> c]
          /\ output' = pre_concat(pre_concat(a, b), c)

\* mode.should_pre_scale_coverage()
ShouldPreScaleCoverage ==
    /\ call = "idle"
    /\ \E mode \in BlendMode :
          /\ call' = "should_pre_scale_coverage"
          /\ input' = [mode |-> mode]
          /\ output' = should_pre_scale_coverage(mode)

\* mode.to_stage()
ToStage ==
    /\ call = "idle"
    /\ \E mode \in BlendMode :
          /\ call' = "to_stage"
          /\ input' = [mode |-> mode]
          /\ output' = to_stage(mode)

RootCoefs == {F(i) : i \in (-MaxRootCoef) .. MaxRootCoef}

\* The units of the coefficients: 1, and 2^125 (about 4.3e37), in which
\* the f32 range ends at 8.
RootExponents == {0, F32_MAX_EXP - 3}

\* find_unit_quad_roots(a, b, c, &mut new_t_values()) with finite f32
\* coefficients
FindUnitQuadRoots ==
    /\ call = "idle"
    /\ \E a \in RootCoefs, b \in RootCoefs, c \in RootCoefs,
          exponent \in RootExponents :
          /\ \A k \in {a, b, c} :
                f32_in_range(k, F32_MAX_EXP - exponent) = k
          /\ call' = "find_unit_quad_roots"
          /\ input' = [a |-> a, b |-> b, c |-> c, exponent |-> exponent]
          /\ output' = unit_quad_roots_in_units(a, b, c, new_t_values,
                                               exponent)

\* find_quad_extrema(a, b, c) for the finite control values a, b and c of
\* one coordinate of a quad
FindQuadExtrema ==
    /\ call = "idle"
    /\ \E a \in RootCoefs, b \in RootCoefs, c \in RootCoefs :
          /\ call' = "find_quad_extrema"
          /\ input' = [a |-> a, b |-> b, c |-> c]
          /\ output' = find_quad_extrema(a, b, c)


\* The operands of valid_unit_divide: integers of both signs, zero, and the
\* three non-finite values.
DivideOperands == RootCoefs \cup {PosInf, NegInf, NaN}

\* valid_unit_divide(numer, denom)
ValidUnitDivide ==
    /\ call = "idle"
    /\ \E numer \in DivideOperands, denom \in DivideOperands :
          /\ call' = "valid_unit_divide"
          /\ input' = [numer |-> numer, denom |-> denom]
          /\ output' = valid_unit_divide(numer, denom)

\* The lanes of the operands of min and max: integers of both signs, zero,
\* and the three non-finite values.
Lanes == Args \cup {PosInf, NegInf, NaN}

LanePairs == {Point(x, y) : x \in Lanes, y \in Lanes}

\* self.min(other)
F32x2Min ==
    /\ call = "idle"
    /\ \E self \in LanePairs, other \in LanePairs :
          /\ call' = "f32x2_min"
          /\ input' = [self |-> self, other |-> other]
          /\ output' = f32x2_min(self, other)

\* self.max(other)
F32x2Max ==
    /\ call = "idle"
    /\ \E self \in LanePairs, other \in LanePairs :
          /\ call' = "f32x2_max"
          /\ input' = [self |-> self, other |-> other]
          /\ output' = f32x2_max(self, other)

\* self.max_component()
MaxComponent ==
    /\ call = "idle"
    /\ \E self \in LanePairs :
          /\ call' = "max_component"
          /\ input' = [self |-> self]
          /\ output' = max_component(self)


\* Control points of the curves: a grid with both signs of x.
CurvePoints == {Point(F(x), F(y)) : x \in (-1) .. MaxCurve, y \in 0 .. MaxCurve}

\* Parameters strictly inside (0, 1) (NormalizedF32Exclusive).
ChopTs == {Rat(i, MaxChop + 1) : i \in 1 .. MaxChop}

\* chop_quad_at(&src, t, &mut dst)
ChopQuadAt ==
    /\ call = "idle"
    /\ \E p0 \in CurvePoints, p1 \in CurvePoints, p2 \in CurvePoints,
          t \in ChopTs :
          /\ call' = "chop_quad_at"
          /\ input' = [src |-> <<p0, p1, p2>>, t |-> t]
          /\ output' = chop_quad_at(<<p0, p1, p2>>, t)

\* chop_cubic_at2(&src, t, &mut dst)
ChopCubicAt2 ==
    /\ call = "idle"
    /\ \E p0 \in CurvePoints, p1 \in CurvePoints, p2 \in CurvePoints,
          p3 \in CurvePoints, t \in ChopTs :
          /\ call' = "chop_cubic_at2"
          /\ input' = [src |-> <<p0, p1, p2, p3>>, t |-> t]
          /\ output' = chop_cubic_at2(<<p0, p1, p2, p3>>, t)

\* Control points of the conics.
ConicPoints == {Point(F(x), F(y)) : x \in 0 .. 1, y \in (-1) .. MaxCurve}

\* Weights of the conics: 1 + w = 0, negative, below and above one, the
\* parabola, and NaN.
ConicWeights == {F(-1), Rat(-1, 2), Half, One, F(2), NaN}

\* The conics start on the y axis.
ConicStarts == {p \in ConicPoints : p.x = Zero}

FiniteConics ==
    {Conic_new(p0, p1, p2, w) :
        p0 \in ConicStarts, p1 \in ConicPoints, p2 \in ConicPoints,
        w \in ConicWeights}

\* More weights for the error estimate.
EstimateWeights == ConicWeights \cup {F(-2), Zero, PosInf, NegInf}

EstimatedConics ==
    {[conic EXCEPT !.weight = w] : conic \in FiniteConics, w \in EstimateWeights}

\* Conics with one non-finite coordinate.
NonFiniteConics ==
    {[Conic_new(Point(Zero, Zero), Point(One, One), Point(F(2), Zero), Half)
         EXCEPT !.points[i].x = bad] : i \in 1 .. 3, bad \in {PosInf, NegInf, NaN}}
    \cup
    {[Conic_new(Point(Zero, Zero), Point(One, One), Point(F(2), Zero), Half)
         EXCEPT !.points[i].y = bad] : i \in 1 .. 3, bad \in {PosInf, NegInf, NaN}}

Tolerances == {F(-1), Zero, <<1, 64>>, QuadTolerance, PosInf, NaN}

\* conic.compute_quad_pow2(tolerance)
ComputeQuadPow2 ==
    /\ call = "idle"
    /\ \E conic \in EstimatedConics \cup NonFiniteConics,
          tolerance \in Tolerances :
          /\ call' = "compute_quad_pow2"
          /\ input' = [conic |-> conic, tolerance |-> tolerance]
          /\ output' = compute_quad_pow2(conic, tolerance)

\* subdivide(&conic, &mut points, level)
Subdivide ==
    /\ call = "idle"
    /\ \E conic \in FiniteConics, level \in 0 .. MAX_CONIC_TO_QUAD_POW2 :
          /\ call' = "subdivide"
          /\ input' = [conic |-> conic, level |-> level]
          /\ output' = subdivide(conic, level)

\* conic.chop_into_quads_pow2(pow2, &mut points)
ChopIntoQuadsPow2 ==
    /\ call = "idle"
    /\ \E conic \in FiniteConics, pow2 \in 0 .. MAX_CONIC_TO_QUAD_POW2 :
          /\ call' = "chop_into_quads_pow2"
          /\ input' = [conic |-> conic, pow2 |-> pow2]
          /\ output' = chop_into_quads_pow2(conic, pow2)

\* AutoConicToQuads::compute(pt0, pt1, pt2, weight)
AutoConicToQuadsCompute ==
    /\ call = "idle"
    /\ \E conic \in FiniteConics \cup NonFiniteConics :
          /\ call' = "AutoConicToQuads::compute"
          /\ input' = conic
          /\ output' = AutoConicToQuads_compute(conic.points[1],
                           conic.points[2], conic.points[3], conic.weight)

\* The edges of the rectangles: halves from -1 to MaxRect.
RectEdges == {Rat(i, 2) : i \in (-2) .. 2 * MaxRect}

\* Rectangles with ordered edges, and one at the end of the i32 range.
Rects ==
    {Rect_from_ltrb(l, t, r, b) :
        <<l, t, r, b>> \in {e \in RectEdges \X RectEdges \X RectEdges \X RectEdges :
                               Le(e[1], e[3]) /\ Le(e[2], e[4])}}
    \cup {Rect_from_ltrb(F(I32_MAX), Zero, F(I32_MAX), One)}

Clips ==
    {[x |-> x, y |-> y, width |-> w, height |-> h] :
        x \in 0 .. 1, y \in 0 .. 1, w \in 1 .. 2, h \in 1 .. 2}

\* fill_rect(&rect, &clip, &mut blitter) on a blitter that records its calls
FillRect ==
    /\ call = "idle"
    /\ \E rect \in Rects, clip \in Clips :
          /\ call' = "fill_rect"
          /\ input' = [rect |-> rect, clip |-> clip]
          /\ output' = fill_rect(rect, clip, <<>>)

\* The cubic of tests::eval_cubic_at_1.
TestCubic ==
    <<Point(F(30), F(40)), Point(F(30), F(40)),
      Point(F(171), F(45)), Point(F(180), F(155))>>

\* Cubics on the grid, and the cubic of the test.
Cubics ==
    {<<p0, p1, p2, p3>> :
        p0 \in CurvePoints, p1 \in CurvePoints,
        p2 \in CurvePoints, p3 \in CurvePoints} \cup {TestCubic}

\* Parameters in [0, 1] (NormalizedF32): both ends and the middle.
EvalTs == {Zero, Half, One}

\* eval_cubic_pos_at(&src, t)
EvalCubicPosAt ==
    /\ call = "idle"
    /\ \E src \in Cubics, t \in EvalTs :
          /\ call' = "eval_cubic_pos_at"
          /\ input' = [src |-> src, t |-> t]
          /\ output' = eval_cubic_pos_at(src, t)

\* Control points that are f32 values of 24 bits, two of them one unit in
\* the last place apart and one far from both.
NearPoints ==
    {Point(F(-Shl1(F32_MANTISSA_DIGITS + 2)), Zero),
     Point(F(Shl1(F32_MANTISSA_DIGITS)), Zero),
     Point(F(Shl1(F32_MANTISSA_DIGITS) + 2), Zero)}

\* Quads on the grid, and quads of far and nearly coincident points.
TangentQuads ==
    {<<p0, p1, p2>> : p0 \in CurvePoints, p1 \in CurvePoints, p2 \in CurvePoints}
        \cup {<<p0, p1, p2>> : p0 \in NearPoints, p1 \in NearPoints, p2 \in NearPoints}

\* Cubics of far and nearly coincident points.
NearCubics ==
    {<<p0, p1, p2, p3>> : p0 \in NearPoints, p1 \in NearPoints,
                          p2 \in NearPoints, p3 \in NearPoints}

\* eval_cubic_tangent_at(&src, t) on far and nearly coincident points
EvalCubicTangentAtNear ==
    /\ call = "idle"
    /\ \E src \in NearCubics, t \in EvalTs :
          /\ call' = "eval_cubic_tangent_at"
          /\ input' = [src |-> src, t |-> t]
          /\ output' = eval_cubic_tangent_at(src, t)

\* eval_quad_tangent_at(&src, tol)
EvalQuadTangentAt ==
    /\ call = "idle"
    /\ \E src \in TangentQuads, tol \in EvalTs :
          /\ call' = "eval_quad_tangent_at"
          /\ input' = [src |-> src, t |-> tol]
          /\ output' = eval_quad_tangent_at(src, tol)


\* eval_cubic_tangent_at(&src, t)
EvalCubicTangentAt ==
    /\ call = "idle"
    /\ \E src \in Cubics, t \in EvalTs :
          /\ call' = "eval_cubic_tangent_at"
          /\ input' = [src |-> src, t |-> t]
          /\ output' = eval_cubic_tangent_at(src, t)


\* Control points of the quads whose curvature is analysed: both signs of x
\* and a range of x that holds a rising and a falling second difference.
QuadCurvaturePoints ==
    {Point(F(x), F(y)) : x \in (-1) .. (MaxCurve + 1), y \in 0 .. MaxCurve}

\* The units of the control points: 1, and 2^64 (about 1.8e19), whose
\* square is beyond the f32 range.
Exponents == {0, F32_MAX_EXP \div 2}

\* find_quad_max_curvature(&src)
FindQuadMaxCurvature ==
    /\ call = "idle"
    /\ \E p0 \in QuadCurvaturePoints, p1 \in QuadCurvaturePoints,
          p2 \in QuadCurvaturePoints, exponent \in Exponents :
          /\ call' = "find_quad_max_curvature"
          /\ input' = [src |-> <<p0, p1, p2>>, exponent |-> exponent]
          /\ output' = find_quad_max_curvature(<<p0, p1, p2>>, exponent)


\* Control points of the cubics whose curvature is analysed.
CurvaturePoints == {Point(F(x), F(y)) : x \in (-1) .. 1, y \in 0 .. 1}

\* The sign of the rounding of r * r - q3 where its exact value is zero.
Roundings == {-1, 0, 1}

\* find_cubic_max_curvature(&src, &mut t_values) with t_values as
\* [NormalizedF32::ZERO; 3]
FindCubicMaxCurvature ==
    /\ call = "idle"
    /\ \E p0 \in CurvaturePoints, p1 \in CurvaturePoints,
          p2 \in CurvaturePoints, p3 \in CurvaturePoints,
          rounding \in Roundings :
          /\ call' = "find_cubic_max_curvature"
          /\ input' = [src |-> <<p0, p1, p2, p3>>, rounding |-> rounding]
          /\ output' = find_cubic_max_curvature(<<p0, p1, p2, p3>>,
                                                <<Zero, Zero, Zero>>, rounding)


NextInvert == Invert \/ Classify \/ Return

SpecInvert == Init /\ [][NextInvert]_vars

NextMap == MapPoint \/ MapPoints \/ Return

SpecMap == Init /\ [][NextMap]_vars

NextScale == PreScale \/ PostScale \/ Return

SpecScale == Init /\ [][NextScale]_vars

NextConcat == PreConcat \/ PostConcat \/ PreConcatChain \/ Return

SpecConcat == Init /\ [][NextConcat]_vars

NextRoots ==
    FindUnitQuadRoots \/ ValidUnitDivide \/ FindQuadExtrema \/ Return

SpecRoots == Init /\ [][NextRoots]_vars

Next ==
    \/ Invert \/ Classify
    \/ MapPoint \/ MapPoints
    \/ PreScale \/ PostScale
    \/ PreConcat \/ PostConcat \/ PreConcatChain
    \/ ShouldPreScaleCoverage \/ ToStage
    \/ FindUnitQuadRoots \/ ValidUnitDivide
    \/ ChopQuadAt \/ ChopCubicAt2
    \/ ComputeQuadPow2 \/ Subdivide \/ ChopIntoQuadsPow2
    \/ AutoConicToQuadsCompute
    \/ FillRect
    \/ EvalCubicPosAt
    \/ EvalCubicTangentAt
    \/ EvalQuadTangentAt \/ EvalCubicTangentAtNear
    \/ FindCubicMaxCurvature
    \/ F32x2Min \/ F32x2Max \/ MaxComponent
    \/ FindQuadMaxCurvature \/ FindQuadExtrema
    \/ Return

Spec == Init /\ [][Next]_vars

NextLanes == F32x2Min \/ F32x2Max \/ MaxComponent \/ Return

SpecLanes == Init /\ [][NextLanes]_vars


NextChop == ChopQuadAt \/ ChopCubicAt2 \/ Return

SpecChop == Init /\ [][NextChop]_vars

NextConic ==
    \/ ComputeQuadPow2 \/ Subdivide \/ ChopIntoQuadsPow2
    \/ AutoConicToQuadsCompute
    \/ Return

SpecConic == Init /\ [][NextConic]_vars


NextRaster == FillRect \/ ShouldPreScaleCoverage \/ ToStage \/ Return

SpecRaster == Init /\ [][NextRaster]_vars


NextEval == EvalCubicPosAt \/ EvalCubicTangentAt \/ Return

SpecEval == Init /\ [][NextEval]_vars

\* The tangent functions, on the grid and on far and nearly coincident
\* control points.
NextTangent ==
    EvalQuadTangentAt \/ EvalCubicTangentAt \/ EvalCubicTangentAtNear \/ Return

SpecTangent == Init /\ [][NextTangent]_vars


NextQuadCurvature == FindQuadMaxCurvature \/ Return

SpecQuadCurvature == Init /\ [][NextQuadCurvature]_vars


NextCurvature == FindCubicMaxCurvature \/ Return

SpecCurvature == Init /\ [][NextCurvature]_vars


-----------------------------------------------------------------------------
(* Claims about Transform::invert and the classification                   *)

\* C1 as stated: every transform with is_valid() has an inverse, and the
\* inverse composed with the transform by pre_concat is the identity.
C1_EveryValidTransformInverts ==
    (call = "invert" /\ is_valid(input.ts)) =>
        /\ output.some
        /\ TransformEq(pre_concat(output.val, input.ts), identity)

\* C1 (amended): whenever invert returns a transform for a transform with
\* is_valid(), that inverse composed with the transform by pre_concat is the
\* identity; a valid transform with a skew part and a determinant of zero has
\* no inverse.
C1_InverseComposesToIdentity ==
    (call = "invert" /\ is_valid(input.ts)) =>
        /\ output.some =>
              TransformEq(pre_concat(output.val, input.ts), identity)
        /\ (has_skew(input.ts)
            /\ Eq(dcross(input.ts.sx, input.ts.sy, input.ts.kx, input.ts.ky), Zero))
              => ~output.some

\* C1 witness: a valid transform with skew and translation was inverted.
C1_Witness ==
    /\ call = "invert"
    /\ is_valid(input.ts)
    /\ has_skew(input.ts)
    /\ has_translate(input.ts)
    /\ output.some
    /\ ~is_identity(output.val)

\* C2: invert returns no value for every non-identity transform whose
\* determinant is zero within the cube tolerance, and every transform it
\* returns has finite coefficients only.
C2_InvertRejectsSingular ==
    call = "invert" =>
        /\ (~is_identity(input.ts) /\ ~inv_determinant(input.ts).some)
              => ~output.some
        /\ output.some => Transform_is_finite(output.val)

\* C7: is_identity holds exactly when no has_ flag is set; is_scale, is_skew
\* and is_translate hold exactly when only their own has_ flag is set, so they
\* exclude each other and the identity; is_scale_translate holds exactly when
\* there is no skew and the transform is not the identity.
C7_ClassificationConsistent ==
    call = "classify" =>
        /\ output.is_identity <=>
              (~output.has_scale /\ ~output.has_skew /\ ~output.has_translate)
        /\ output.is_scale <=>
              (output.has_scale /\ ~output.has_skew /\ ~output.has_translate)
        /\ output.is_skew <=>
              (~output.has_scale /\ output.has_skew /\ ~output.has_translate)
        /\ output.is_translate <=>
              (~output.has_scale /\ ~output.has_skew /\ output.has_translate)
        /\ ~(output.is_scale /\ output.is_skew)
        /\ ~(output.is_scale /\ output.is_translate)
        /\ ~(output.is_skew /\ output.is_translate)
        /\ output.is_identity =>
              (~output.is_scale /\ ~output.is_skew /\ ~output.is_translate)
        /\ output.is_scale_translate <=>
              (~output.has_skew /\ ~output.is_identity)

\* C7 witness: a transform with scale and translation but no skew was
\* classified: it is scale-translate and none of the single kinds.
C7_Witness ==
    /\ call = "classify"
    /\ output.has_scale
    /\ output.has_translate
    /\ output.is_scale_translate
    /\ ~output.is_scale
    /\ ~output.is_translate

-----------------------------------------------------------------------------
(* Claims about composition, mapping and scaling                           *)

\* C3: mapping a point with a.pre_concat(b) is mapping it with b and then
\* with a; mapping it with a.post_concat(b) is mapping it with a and then
\* with b; and a.post_concat(b) equals b.pre_concat(a).
C3_ConcatOrder ==
    /\ call = "pre_concat" =>
          PointEq(output.point,
                  map_point(input.a, map_point(input.b, input.point)))
    /\ call = "post_concat" =>
          /\ PointEq(output.point,
                     map_point(input.b, map_point(input.a, input.point)))
          /\ TransformEq(output.ts, pre_concat(input.b, input.a))

\* C3 witness: a skew was post-concatenated to a translation, where the
\* order of the two matters for the point mapped.
C3_Witness ==
    /\ call = "post_concat"
    /\ is_translate(input.a)
    /\ is_skew(input.b)
    /\ ~PointEq(output.point,
                map_point(input.a, map_point(input.b, input.point)))

\* C4: composition is associative: (a . b) . c equals a . (b . c), whichever
\* branch of concat each of the four compositions takes.
C4_ConcatAssociative ==
    call = "pre_concat_chain" =>
        TransformEq(output, concat(input.a, concat(input.b, input.c)))

\* C4 witness: a chain whose first composition takes the scale-and-translate
\* branch and whose second takes the general branch.
C4_Witness ==
    /\ call = "pre_concat_chain"
    /\ is_translate(input.a)
    /\ is_scale(input.b)
    /\ is_skew(input.c)
    /\ has_translate(output)
    /\ has_skew(output)

\* C5: map_point yields the point of the general formula
\* (x*sx + y*kx + tx, x*ky + y*sy + ty) on every branch, and map_points gives
\* every element of the slice what map_point gives for it (the empty slice
\* stays empty).
C5_MapPointIsGeneralFormula ==
    /\ call = "map_point" =>
          PointEq(output,
                  Point(Add(Add(Mul(input.point.x, input.ts.sx),
                                Mul(input.point.y, input.ts.kx)),
                            input.ts.tx),
                        Add(Add(Mul(input.point.x, input.ts.ky),
                                Mul(input.point.y, input.ts.sy)),
                            input.ts.ty)))
    /\ call = "map_points" =>
          /\ Len(output) = Len(input.points)
          /\ \A i \in 1 .. Len(input.points) :
                PointEq(output[i], map_point(input.ts, input.points[i]))

\* C5 witness: a slice of two points or more was mapped by a scale-and-
\* translate transform and moved.
C5_Witness ==
    /\ call = "map_points"
    /\ Len(input.points) >= 2
    /\ is_scale_translate(input.ts)
    /\ has_scale(input.ts)
    /\ has_translate(input.ts)
    /\ ~PointEq(output[2], input.points[2])

\* C6: pre_scale(a, b) multiplies sx and ky by a and kx and sy by b and leaves
\* tx and ty alone; post_scale(a, b) multiplies sx, kx and tx by a and ky, sy
\* and ty by b; from_row(1.2, 3.4, -5.6, -7.8, 1.2, 3.4).pre_scale(2, -4) is
\* from_row(2.4, 6.8, 22.4, 31.2, 1.2, 3.4).
C6_ScaleCoefficients ==
    /\ call = "pre_scale" =>
          /\ TransformEq(output,
                from_row(Mul(input.ts.sx, input.sx), Mul(input.ts.ky, input.sx),
                         Mul(input.ts.kx, input.sy), Mul(input.ts.sy, input.sy),
                         input.ts.tx, input.ts.ty))
          /\ (input.ts = TestTransform /\ <<input.sx, input.sy>> = TestScale) =>
                TransformEq(output,
                    from_row(Rat(24, 10), Rat(68, 10), Rat(224, 10),
                             Rat(312, 10), Rat(12, 10), Rat(34, 10)))
    /\ call = "post_scale" =>
          TransformEq(output,
                from_row(Mul(input.ts.sx, input.sx), Mul(input.ts.ky, input.sy),
                         Mul(input.ts.kx, input.sx), Mul(input.ts.sy, input.sy),
                         Mul(input.ts.tx, input.sx), Mul(input.ts.ty, input.sy)))

\* C6 witness: the pre_scale of tests::concat was made.
C6_Witness ==
    /\ call = "pre_scale"
    /\ input.ts = TestTransform
    /\ <<input.sx, input.sy>> = TestScale
    /\ output.kx = Rat(224, 10)

-----------------------------------------------------------------------------
(* Claims about the BlendMode tables                                       *)

PreScaledModes ==
    {"Destination", "DestinationOver", "Plus", "DestinationOut", "SourceAtop",
     "SourceOver", "Xor"}

\* C8 as stated: should_pre_scale_coverage is true for exactly the 7 named
\* modes and false for all the others, which are 21 (28 modes in total).
C8_SevenOfTwentyEight ==
    call = "should_pre_scale_coverage" =>
        /\ output <=> input.mode \in PreScaledModes
        /\ Cardinality({m \in BlendMode : should_pre_scale_coverage(m)}) = 7
        /\ Cardinality({m \in BlendMode : ~should_pre_scale_coverage(m)}) = 21
        /\ Cardinality(BlendMode) = 28

\* C8 (amended): should_pre_scale_coverage is true for exactly the 7 named
\* modes and false for all the others, which are 22 (29 modes in total).
C8_SevenOfTwentyNine ==
    call = "should_pre_scale_coverage" =>
        /\ output <=> input.mode \in PreScaledModes
        /\ Cardinality({m \in BlendMode : should_pre_scale_coverage(m)}) = 7
        /\ Cardinality({m \in BlendMode : ~should_pre_scale_coverage(m)}) = 22
        /\ Cardinality(BlendMode) = 29

\* C8 witness: the predicate was asked of Xor, the last of the 7, and held.
C8_Witness ==
    /\ call = "should_pre_scale_coverage"
    /\ input.mode = "Xor"
    /\ output

\* C9 as stated: to_stage returns no stage for Source only, and the other
\* modes, 27 in number, map to stages that differ from each other.
C9_TwentySevenStages ==
    call = "to_stage" =>
        /\ ~output.some <=> input.mode = "Source"
        /\ \A m \in BlendMode \ {input.mode} : to_stage(m) # output
        /\ Cardinality({m \in BlendMode : to_stage(m).some}) = 27

\* C9 (amended): to_stage returns no stage for Source only, and the other
\* modes, 28 in number, map to stages that differ from each other.
C9_TwentyEightStages ==
    call = "to_stage" =>
        /\ ~output.some <=> input.mode = "Source"
        /\ \A m \in BlendMode \ {input.mode} : to_stage(m) # output
        /\ Cardinality({m \in BlendMode : to_stage(m).some}) = 28

\* C9 witness: the stage of Destination, the one mode whose stage has another
\* name, was asked for.
C9_Witness ==
    /\ call = "to_stage"
    /\ input.mode = "Destination"
    /\ output = Some("MoveDestinationToSource")

-----------------------------------------------------------------------------
(* Claims about find_unit_quad_roots                                       *)

\* C10: find_unit_quad_roots returns at most 2 roots, each strictly inside
\* (0, 1), in strictly increasing order: two equal candidates are reported
\* as one root.
C10_RootsOrderedInUnitInterval ==
    call = "find_unit_quad_roots" =>
        /\ output.count \in 0 .. 2
        /\ \A i \in 1 .. output.count :
              Lt(Zero, output.roots[i]) /\ Lt(output.roots[i], One)
        /\ output.count = 2 => Lt(output.roots[1], output.roots[2])

\* C10 witness: 6t^2 - 5t + 1, whose roots are found as 1/2 and then 1/3,
\* was solved and the roots came back in ascending order.
C10_Witness ==
    /\ call = "find_unit_quad_roots"
    /\ input = [a |-> F(6), b |-> F(-5), c |-> F(1), exponent |-> 0]
    /\ output.count = 2
    /\ output.roots[1] = Rat(1, 3)
    /\ output.roots[2] = Rat(1, 2)

-----------------------------------------------------------------------------
(* Claims about valid_unit_divide                                          *)

\* C11: valid_unit_divide(numer, denom) returns a value exactly when the
\* quotient numer / denom lies strictly inside (0, 1), and the value is that
\* quotient; for finite operands this is the case exactly when both are
\* non-zero, of the same sign, and |numer| < |denom|.  In every other case
\* (denom == 0, numer == 0, opposite signs, |numer| >= |denom|) it returns
\* no value.
C11_UnitDivideOnlyInsideUnitInterval ==
    call = "valid_unit_divide" =>
        LET quotient == Div(input.numer, input.denom)
        IN  /\ output.some <=> (Lt(Zero, quotient) /\ Lt(quotient, One))
            /\ output.some => Eq(output.val, quotient)
            /\ is_finite(input.numer) /\ is_finite(input.denom) =>
                  (output.some <=>
                      /\ Ne(input.numer, Zero)
                      /\ Ne(input.denom, Zero)
                      /\ Sign(input.numer) = Sign(input.denom)
                      /\ Lt(FAbs(input.numer), FAbs(input.denom)))

\* C11 witness: -1 / -2, two negative operands, came back as 1/2.
C11_Witness ==
    /\ call = "valid_unit_divide"
    /\ input = [numer |-> F(-1), denom |-> F(-2)]
    /\ output = Some(Rat(1, 2))

-----------------------------------------------------------------------------
(* Claims about chop_quad_at and chop_cubic_at2                            *)

\* C12: for all control points and every t in (0, 1), chop_quad_at writes 5
\* points and chop_cubic_at2 writes 7 points; the point the two children
\* share (dst[2] of a quad, dst[3] of a cubic) is the original curve
\* evaluated at t, and the first and last points written are the first and
\* last source points.
C12_ChopMeetsOnTheCurve ==
    /\ call = "chop_quad_at" =>
          /\ Len(output) = 5
          /\ PointEq(output[3], eval_quad_at(input.src, input.t))
          /\ PointEq(output[1], input.src[1])
          /\ PointEq(output[5], input.src[3])
    /\ call = "chop_cubic_at2" =>
          /\ Len(output) = 7
          /\ PointEq(output[4], eval_cubic_pos_at(input.src, input.t))
          /\ PointEq(output[1], input.src[1])
          /\ PointEq(output[7], input.src[4])

\* C12 witness: a cubic that is not a line was chopped away from its middle
\* and the children meet at a point that is none of the control points.
C12_Witness ==
    /\ call = "chop_cubic_at2"
    /\ input.src = <<Point(F(-1), F(0)), Point(F(0), F(1)),
                     Point(F(1), F(1)), Point(F(1), F(0))>>
    /\ input.t = Rat(1, MaxChop + 1)
    /\ \A i \in 1 .. 4 : ~PointEq(output[4], input.src[i])

-----------------------------------------------------------------------------
(* Claims about the conic to quad conversion                               *)

\* C13: for every conic with finite points and every pow2 in 0 .. 4, after
\* chop_into_quads_pow2 the first output point is the conic's first point
\* and the output point at index 2 * 2^pow2 is the conic's last point,
\* exactly, whether or not the monotonicity repair or the non-finite
\* recovery ran.
C13_EndPointsKept ==
    call = "chop_into_quads_pow2" =>
        /\ Len(output.points) = 2 * Shl1(input.pow2) + 1
        /\ output.points[1] = input.conic.points[1]
        /\ output.points[2 * Shl1(input.pow2) + 1] = input.conic.points[3]

\* C13 witness: a conic all at y = 1, whose computed midpoint is rounded
\* out of the y-range and repaired, was chopped into 16 quads.
C13_Witness ==
    /\ call = "chop_into_quads_pow2"
    /\ input.pow2 = 4
    /\ input.conic = Conic_new(Point(Zero, One), Point(One, One),
                               Point(One, One), Half)
    /\ ~between(One, Conic_chop(input.conic)[1].points[3].y, One)
    /\ output.quads = 16
    /\ Len(output.points) = 33

\* The y coordinates of a conic followed by the points subdivide wrote.
YsAfterSubdivide ==
    <<input.conic.points[1].y>>
        \o [i \in 1 .. Len(output.points) |-> output.points[i].y]

\* C14: if the three control points of a conic are y-monotonic (the middle y
\* lies between the end ys), then after subdivide at any level 1 .. 4 every
\* chop satisfied the three ordering assertions, and the y coordinates of
\* the whole output point sequence are monotonic in sequence order and stay
\* within the range of the conic's start and end y.
C14_MonotonicConicStaysMonotonic ==
    (/\ call = "subdivide"
     /\ input.level \in 1 .. 4
     /\ between(input.conic.points[1].y, input.conic.points[2].y,
                input.conic.points[3].y)) =>
        LET ys == YsAfterSubdivide
            start_y == input.conic.points[1].y
            end_y == input.conic.points[3].y
        IN  /\ output.asserts
            /\ Len(ys) = 2 * Shl1(input.level) + 1
            /\ \/ \A i \in 1 .. Len(ys) - 1 : Le(ys[i], ys[i + 1])
               \/ \A i \in 1 .. Len(ys) - 1 : Ge(ys[i], ys[i + 1])
            /\ \A i \in 1 .. Len(ys) :
                  \/ Le(start_y, ys[i]) /\ Le(ys[i], end_y)
                  \/ Ge(start_y, ys[i]) /\ Ge(ys[i], end_y)

\* C14 witness: a y-monotonic conic of negative weight, whose chop puts the
\* first control point below the start, was subdivided to level 4 and the
\* assertions held.
C14_Witness ==
    /\ call = "subdivide"
    /\ input.level = 4
    /\ input.conic = Conic_new(Point(Zero, Zero), Point(One, One),
                               Point(One, One), Rat(-1, 2))
    /\ Lt(Conic_chop(input.conic)[1].points[2].y, Zero)
    /\ output.asserts
    /\ Len(output.points) = 32

\* The error estimate of a conic after n quarterings is within the tolerance.
ErrorWithin(conic, tolerance, n) ==
    Le(Div(error_estimate(conic), F(<<1, 4, 16, 64, 256>>[n + 1])), tolerance)

\* C15: compute_quad_pow2 returns no value when the tolerance is negative
\* or non-finite or any control point is non-finite; otherwise it returns
\* the number of quarterings of the error estimate needed to reach
\* error <= tolerance, capped at 4 and floored at 1, so the result is always
\* in 1 .. 4 and AutoConicToQuads::compute reports 2, 4, 8 or 16 quads.
C15_Pow2FromQuarterings ==
    /\ call = "compute_quad_pow2" =>
          LET rejected ==
                  \/ Lt(input.tolerance, Zero)
                  \/ ~is_finite(input.tolerance)
                  \/ \E i \in 1 .. 3 : ~Point_is_finite(input.conic.points[i])
              enough == {n \in 0 .. 4 :
                            ErrorWithin(input.conic, input.tolerance, n)}
              needed == IF enough = {} THEN 4
                        ELSE CHOOSE n \in enough : \A m \in enough : n <= m
          IN  /\ rejected <=> ~output.some
              /\ output.some =>
                    /\ output.val \in 1 .. 4
                    /\ output.val = IF needed < 1 THEN 1 ELSE needed
    /\ (call = "AutoConicToQuads::compute" /\ output.some) =>
          /\ output.val.len \in {2, 4, 8, 16}
          /\ Len(output.val.points) = 2 * output.val.len + 1

\* C15 witness: an estimate of 3/2 took two quarterings to come within the
\* tolerance 1/4.
C15_Witness ==
    /\ call = "compute_quad_pow2"
    /\ input.conic = Conic_new(Point(Zero, Zero), Point(Zero, One),
                               Point(Zero, Zero), Rat(-1, 2))
    /\ error_estimate(input.conic) = Rat(3, 2)
    /\ input.tolerance = QuadTolerance
    /\ output = Some(2)

\* C16: a conic whose weight is non-finite or degenerate is rejected before
\* subdivision: compute_quad_pow2, and therefore AutoConicToQuads::compute,
\* return no value for such a weight (here: a weight that is NaN or
\* infinite).
C16_NonFiniteWeightRejected ==
    /\ (call = "compute_quad_pow2" /\ ~is_finite(input.conic.weight)) =>
          ~output.some
    /\ (call = "AutoConicToQuads::compute" /\ ~is_finite(input.weight)) =>
          ~output.some

\* C17: after chop_into_quads_pow2, if any of the 2 * 2^pow2 + 1 generated
\* points is non-finite then the recovery collapses the offending points to
\* the conic's control point while the first and last output points stay
\* equal to the conic's endpoints, so no non-finite point remains in the
\* output; if no generated point is non-finite the recovery changes nothing.
\* (The control points of the conic are finite, as compute_quad_pow2
\* requires.)
C17_RecoveryPinsToControlPoint ==
    call = "chop_into_quads_pow2" =>
        LET generated == generated_points(input.conic, input.pow2)
            pt_count == 2 * Shl1(input.pow2) + 1
        IN  IF \E i \in 1 .. pt_count : ~Point_is_finite(generated[i])
            THEN /\ \A i \in 1 .. pt_count :
                       ~Point_is_finite(generated[i]) =>
                           output.points[i] = input.conic.points[2]
                 /\ output.points[1] = input.conic.points[1]
                 /\ output.points[pt_count] = input.conic.points[3]
                 /\ \A i \in 1 .. pt_count : Point_is_finite(output.points[i])
            ELSE \A i \in 1 .. pt_count : output.points[i] = generated[i]

\* C17 witness: a conic of weight -1, whose chop divides by 1 + w = 0, was
\* chopped into 4 quads; generated points were non-finite and the output
\* points are finite.
C17_Witness ==
    /\ call = "chop_into_quads_pow2"
    /\ input.pow2 = 2
    /\ input.conic = Conic_new(Point(Zero, Zero), Point(One, One),
                               Point(One, Zero), F(-1))
    /\ ~Point_is_finite(generated_points(input.conic, input.pow2)[2])
    /\ \A i \in 1 .. 9 : Point_is_finite(output.points[i])

-----------------------------------------------------------------------------
(* Claims about fill_rect                                                  *)

\* The pixel (x, y) lies in the integer rectangle r.
InRect(x, y, r) ==
    /\ r.x <= x /\ x < r.x + r.width
    /\ r.y <= y /\ y < r.y + r.height

\* The pixels a clip can hold.
ClipPixels == (0 .. 3) \X (0 .. 3)

\* C18: fill_rect invokes the blitter's blit_rect zero times when the
\* rounded rectangle does not intersect the clip (or cannot be rounded),
\* and otherwise exactly once, with exactly the intersection of the rounded
\* rectangle and the clip's integer bounds, which lies inside the clip.
C18_OneBlitOfTheIntersection ==
    call = "fill_rect" =>
        LET rounded == Rect_round(input.rect)
            common == IF rounded.some
                      THEN {p \in ClipPixels :
                               /\ InRect(p[1], p[2], rounded.val)
                               /\ InRect(p[1], p[2], input.clip)}
                      ELSE {}
        IN  IF common = {} THEN Len(output) = 0
            ELSE /\ Len(output) = 1
                 /\ \A x \in (-2) .. 4, y \in (-2) .. 4 :
                       InRect(x, y, output[1]) <=> <<x, y>> \in common
                 /\ \A p \in common : InRect(p[1], p[2], input.clip)

\* C18 witness: a rectangle that reaches over the right and bottom edges of
\* the clip was filled, and the blitter got the clipped part once.
C18_Witness ==
    /\ call = "fill_rect"
    /\ input.rect = Rect_from_ltrb(Half, Half, F(2), F(2))
    /\ input.clip = [x |-> 0, y |-> 0, width |-> 2, height |-> 2]
    /\ output = <<[x |-> 1, y |-> 1, width |-> 1, height |-> 1]>>

-----------------------------------------------------------------------------
(* Claims about eval_cubic_tangent_at                                      *)

\* a * p for a scalar a and a point p.
Scaled(a, p) == Point(Mul(a, p.x), Mul(a, p.y))

\* The hodograph of the cubic at t, without its factor of three:
\* (1-t)^2 (P1-P0) + 2 (1-t) t (P2-P1) + t^2 (P3-P2).
Hodograph(src, t) ==
    LET s == Sub(One, t)
    IN  f32x2_add(
            f32x2_add(Scaled(Mul(s, s), Point_sub(src[2], src[1])),
                      Scaled(Mul(F(2), Mul(s, t)), Point_sub(src[3], src[2]))),
            Scaled(Mul(t, t), Point_sub(src[4], src[3])))

IsZeroVector(p) == Eq(p.x, Zero) /\ Eq(p.y, Zero)

-----------------------------------------------------------------------------
(* Claims about find_cubic_max_curvature                                   *)

\* C20: find_cubic_max_curvature (through solve_cubic_poly) returns at most
\* 3 values, each in [0,1], all distinct and in strictly increasing order,
\* on every branch (quadratic fallback, three real roots, one real root).
C20_FewSortedDistinctUnitValues ==
    call = "find_cubic_max_curvature" =>
        /\ Len(output) <= 3
        /\ \A i \in 1 .. Len(output) : Ge(output[i], Zero) /\ Le(output[i], One)
        /\ \A i \in 1 .. Len(output), j \in 1 .. Len(output) :
              i # j => output[i] # output[j]
        /\ \A i \in 1 .. Len(output) - 1 : Lt(output[i], output[i + 1])

\* C20 witness: the three roots of the cubic with the control points
\* (0,1), (0,1), (1,0), (1,0) were found, clamped and sorted.
C20_Witness ==
    /\ call = "find_cubic_max_curvature"
    /\ input.src = <<Point(Zero, One), Point(Zero, One),
                     Point(One, Zero), Point(One, Zero)>>
    /\ output = <<Zero, Half, One>>

-----------------------------------------------------------------------------
(* Claims about f32x2::min and f32x2::max                                  *)

\* Two lane values tie or are incomparable: neither is less than the other.
Unordered(a, b) == ~Lt(a, b) /\ ~Lt(b, a)

\* The lane result of min (smaller) or max (~smaller) for the operands a and
\* b, when an unordered pair gives kept and an ordered pair gives the
\* smaller or the larger of the two.
LaneResult(a, b, smaller, kept) ==
    IF Unordered(a, b) THEN kept
    ELSE IF Lt(a, b) = smaller THEN a ELSE b

\* The result of min or max lane by lane, with the second operand (second)
\* or the first one kept of an unordered pair.
LaneByLane(self, other, smaller, second) ==
    Point(LaneResult(self.x, other.x, smaller,
                     IF second THEN other.x ELSE self.x),
          LaneResult(self.y, other.y, smaller,
                     IF second THEN other.y ELSE self.y))

\* C21 as stated: f32x2::min and f32x2::max (pmin/pmax) return, per lane,
\* the second operand when the two lane values tie or are incomparable (one
\* of them is NaN), and otherwise the smaller (min) or larger (max) of the
\* two.
C21_SecondOperandOnTieOrNaN ==
    /\ call = "f32x2_min" =>
          output = LaneByLane(input.self, input.other, TRUE, TRUE)
    /\ call = "f32x2_max" =>
          output = LaneByLane(input.self, input.other, FALSE, TRUE)

\* C21 amended: f32x2::min and f32x2::max (pmin/pmax) return, per lane, the
\* first operand when the two lane values tie or are incomparable (one of
\* them is NaN), and otherwise the smaller (min) or larger (max) of the two.
C21_FirstOperandOnTieOrNaN ==
    /\ call = "f32x2_min" =>
          output = LaneByLane(input.self, input.other, TRUE, FALSE)
    /\ call = "f32x2_max" =>
          output = LaneByLane(input.self, input.other, FALSE, FALSE)

\* C21 witness: max of (1, NaN) and (NaN, -1), incomparable in both lanes,
\* came back as the first operand.
C21_Witness ==
    /\ call = "f32x2_max"
    /\ input = [self |-> Point(One, NaN), other |-> Point(NaN, F(-1))]
    /\ output = Point(One, NaN)


-----------------------------------------------------------------------------
(* Claims about find_quad_max_curvature                                    *)

\* The numerator of the call in progress, with the sign of the denominator.
Numerator ==
    curvature_numer(Sub(input.src[2].x, input.src[1].x),
                    Sub(input.src[2].y, input.src[1].y),
                    Add(Sub(Sub(input.src[1].x, input.src[2].x),
                            input.src[2].x), input.src[3].x),
                    Add(Sub(Sub(input.src[1].y, input.src[2].y),
                            input.src[2].y), input.src[3].y),
                    input.exponent)

\* The denominator of the call in progress, a sum of two squares.
Denominator ==
    curvature_denom(Add(Sub(Sub(input.src[1].x, input.src[2].x),
                            input.src[2].x), input.src[3].x),
                    Add(Sub(Sub(input.src[1].y, input.src[2].y),
                            input.src[2].y), input.src[3].y),
                    input.exponent)

\* C22: for every three finite control points find_quad_max_curvature
\* completes without panicking and returns a parameter in [0,1]: 0 when the
\* numerator is <= 0, 1 when the numerator is >= the denominator (including
\* a zero denominator), and numer/denom otherwise, so its unwrap of
\* NormalizedF32::new never fails.
C22_CompletesInUnitInterval ==
    call = "find_quad_max_curvature" =>
        /\ ~output.panicked
        /\ Le(Zero, output.value) /\ Le(output.value, One)
        /\ Le(Numerator, Zero) => output.value = Zero
        /\ (~Le(Numerator, Zero) /\ Ge(Numerator, Denominator)) =>
              output.value = One
        /\ (~Le(Numerator, Zero) /\ ~Ge(Numerator, Denominator)) =>
              output.value = Div(Numerator, Denominator)


-----------------------------------------------------------------------------
(* Claims about the roots that find_unit_quad_roots returns                *)

\* a t^2 + b t + c
QuadAt(a, b, c, t) == Add(Mul(Add(Mul(a, t), b), t), c)

\* b^2 - 4 a c
DiscriminantOf(a, b, c) == Sub(Mul(b, b), Mul(Mul(F(4), a), c))

InUnitInterval(t) == Lt(Zero, t) /\ Lt(t, One)

\* The number of distinct real roots of a t^2 + b t + c strictly inside
\* (0, 1), from the signs of the polynomial at 0 and 1, the place of its
\* vertex and the root that accompanies a root at 0 or at 1.
UnitRootCount(a, b, c) ==
    IF Eq(a, Zero)
    THEN IF Ne(b, Zero) /\ InUnitInterval(Div(Neg(c), b)) THEN 1 ELSE 0
    ELSE IF Lt(DiscriminantOf(a, b, c), Zero) THEN 0
    ELSE IF Eq(DiscriminantOf(a, b, c), Zero)
    THEN IF InUnitInterval(Div(Neg(b), Mul(F(2), a))) THEN 1 ELSE 0
    ELSE LET at0 == Sign(a) * Sign(c)
             at1 == Sign(a) * Sign(Add(Add(a, b), c))
         IN  IF at0 = 0 /\ at1 = 0 THEN 0
             ELSE IF at0 = 0
             THEN IF InUnitInterval(Div(Neg(b), a)) THEN 1 ELSE 0
             ELSE IF at1 = 0
             THEN IF InUnitInterval(Div(c, a)) THEN 1 ELSE 0
             ELSE IF at0 # at1 THEN 1
             ELSE IF at0 < 0 THEN 0
             ELSE IF InUnitInterval(Div(Neg(b), Mul(F(2), a))) THEN 2 ELSE 0

\* The cell of t on the grid of the multiples of 1 / SqrtGrid, the precision
\* of a root computed from a rounded square root.
GridCell(t) == (t[1] * SqrtGrid) \div t[2]

\* The sign of a t^2 + b t + c at j / SqrtGrid, for integer a, b and c.
QuadSignOnGrid(a, b, c, j) ==
    Sgn(a[1] * j * j + b[1] * j * SqrtGrid + c[1] * SqrtGrid * SqrtGrid)

\* t satisfies a t^2 + b t + c = 0: exactly where the square root of the
\* discriminant is exact, and to the precision of the square root otherwise
\* (the polynomial changes sign between the grid points around t).
SatisfiesQuad(a, b, c, t) ==
    IF Eq(a, Zero)
          \/ Mul(Sqrt(DiscriminantOf(a, b, c)), Sqrt(DiscriminantOf(a, b, c)))
                = DiscriminantOf(a, b, c)
    THEN Eq(QuadAt(a, b, c, t), Zero)
    ELSE QuadSignOnGrid(a, b, c, GridCell(t) - 1)
            * QuadSignOnGrid(a, b, c, GridCell(t) + 2) < 0

\* The call returned the distinct real roots of its polynomial in (0, 1).
ReturnedTheUnitRoots ==
    /\ output.count = UnitRootCount(input.a, input.b, input.c)
    /\ \A i \in 1 .. output.count :
          SatisfiesQuad(input.a, input.b, input.c, output.roots[i])
    /\ output.count = 2 =>
          GridCell(output.roots[1]) + 3 < GridCell(output.roots[2])

\* The cases of the claim: a quadratic with a discriminant that is not
\* negative, or a polynomial with a == 0 other than the zero polynomial
\* (whose roots are not a finite set).
QuadraticOrLinear ==
    \/ Ne(input.a, Zero)
          /\ Ge(DiscriminantOf(input.a, input.b, input.c), Zero)
    \/ Eq(input.a, Zero) /\ (Ne(input.b, Zero) \/ Ne(input.c, Zero))

\* |b| + r, the magnitude of the sum that q is computed from, is in the
\* f32 range (and then so is r, the square root of the discriminant).
SumInF32Range ==
    is_finite(f32_in_range(
        Add(FAbs(input.b),
            Sqrt(DiscriminantOf(input.a, input.b, input.c))),
        F32_MAX_EXP - input.exponent))

\* C23 as stated: for a != 0 with discriminant >= 0 (and in the linear
\* case a == 0), the roots returned by find_unit_quad_roots are exactly the
\* distinct real roots of a*t^2 + b*t + c that lie strictly inside (0,1):
\* every returned root satisfies the polynomial and no root inside (0,1) is
\* omitted.
C23_ExactlyTheUnitRoots ==
    (call = "find_unit_quad_roots" /\ QuadraticOrLinear) =>
        ReturnedTheUnitRoots

\* C23 amended: the same where, for a != 0, the square root r of the
\* discriminant and the sum |b| + r are in the f32 range; beyond it the
\* call may return no root although one lies inside (0,1).
C23_ExactlyTheUnitRootsInRange ==
    (call = "find_unit_quad_roots" /\ QuadraticOrLinear
        /\ (Ne(input.a, Zero) => SumInF32Range)) =>
        ReturnedTheUnitRoots

\* C23 witness: t^2 - 3t + 1 in units of 2^125, with |b| + r about 5.24,
\* was solved and its one root inside (0,1), (3 - sqrt(5)) / 2, came back.
C23_Witness ==
    /\ call = "find_unit_quad_roots"
    /\ input = [a |-> F(1), b |-> F(-3), c |-> F(1),
                exponent |-> F32_MAX_EXP - 3]
    /\ output.count = 1
    /\ Lt(<<3, 8>>, output.roots[1]) /\ Lt(output.roots[1], <<25, 64>>)


-----------------------------------------------------------------------------
(* Claims about the buffer of chop_into_quads_pow2                         *)

\* The indices that the sequence of writes log holds.
IndicesOf(log) == {log[k] : k \in 1 .. Len(log)}

-----------------------------------------------------------------------------
(* Claims about collapse_duplicates3                                       *)

\* The coefficients that find_cubic_max_curvature passes to
\* solve_cubic_poly in the call in progress.
CurvatureCoeff ==
    add_coefficients(
        formulate_f1_dot_f2(<<input.src[1].x, input.src[2].x,
                              input.src[3].x, input.src[4].x>>),
        formulate_f1_dot_f2(<<input.src[1].y, input.src[2].y,
                              input.src[3].y, input.src[4].y>>))

\* The call in progress took the branch of the three real roots.
ThreeRealRoots ==
    /\ call = "find_cubic_max_curvature"
    /\ ~is_nearly_zero_within_tolerance(CurvatureCoeff[1], SCALAR_NEARLY_ZERO)
    /\ r2_minus_q3_sign(CurvatureCoeff, input.rounding) < 0

\* The three clamped candidates of that branch, as stored in t_values.
Candidates == clamped_roots(trig_roots(CurvatureCoeff))

\* C25: in the three-real-roots branch of solve_cubic_poly, after
\* sort_array3 and collapse_duplicates3 the returned prefix
\* t_values[0..len] contains every distinct value among the three clamped
\* candidates: collapsing removes only repeated values and never drops a
\* value that differs from all values kept.
C25_CollapseKeepsEveryDistinctValue ==
    ThreeRealRoots =>
        \A i \in 1 .. 3 : \E k \in 1 .. Len(output) : output[k] = Candidates[i]


-----------------------------------------------------------------------------
(* Claims about find_quad_extrema                                          *)

\* b lies strictly outside the closed interval spanned by a and c.
StrictlyOutside(a, b, c) ==
    \/ Lt(b, a) /\ Lt(b, c)
    \/ Gt(b, a) /\ Gt(b, c)

\* The derivative of the quad with the control values a, b and c at t:
\* 2 (b - a) + 2 (a - 2b + c) t.
QuadDerivative(a, b, c, t) ==
    Add(Mul(F(2), Sub(b, a)),
        Mul(Mul(F(2), Add(Sub(a, Mul(F(2), b)), c)), t))

\* C26: find_quad_extrema(a, b, c) returns a parameter exactly when the
\* middle control value b lies strictly outside the closed interval spanned
\* by a and c, i.e. exactly when between(a, b, c) is false; when it returns
\* t, the quad's derivative in that coordinate vanishes at t
\* (t = (a-b)/(a-2b+c)) and 0 < t < 1.
C26_ExtremumExactlyOutsideTheEnds ==
    call = "find_quad_extrema" =>
        /\ output.some <=> StrictlyOutside(input.a, input.b, input.c)
        /\ output.some <=> ~between(input.a, input.b, input.c)
        /\ output.some =>
              /\ Eq(QuadDerivative(input.a, input.b, input.c, output.val), Zero)
              /\ Eq(output.val,
                    Div(Sub(input.a, input.b),
                        Add(Sub(input.a, Mul(F(2), input.b)), input.c)))
              /\ Lt(Zero, output.val) /\ Lt(output.val, One)

\* C26 witness: the control values 1, 3, 2, whose middle one is above both
\* ends, have their extremum at t = 2/3.
C26_Witness ==
    /\ call = "find_quad_extrema"
    /\ input = [a |-> F(1), b |-> F(3), c |-> F(2)]
    /\ output = Some(Rat(2, 3))


-----------------------------------------------------------------------------
(* Claims about the end tangents of quads and cubics                       *)

\* The tangent functions at an end parameter.
EndTangentCall ==
    /\ call \in {"eval_quad_tangent_at", "eval_cubic_tangent_at"}
    /\ Eq(input.t, Zero) \/ Eq(input.t, One)

\* All control points of the curve of the call are one point.
ControlPointsCoincide ==
    \A i \in DOMAIN input.src : PointEq(input.src[i], input.src[1])

ZeroVector(v) == Eq(v.x, Zero) /\ Eq(v.y, Zero)

\* C27: at t = 0 and t = 1, eval_quad_tangent_at and eval_cubic_tangent_at
\* return the zero vector only if all control points coincide: a curve with
\* two distinct control points has non-zero end tangents.
C27_EndTangentZeroOnlyIfCoincident ==
    (EndTangentCall /\ ZeroVector(output)) => ControlPointsCoincide

=====
